---- MODULE Spec2Model ----
(***************************************************************************)
(* redmine2jira: the resource mapping resolver, the issue field projector, *)
(* the export document assembler and the journal normalizer of             *)
(* redmine2jira/exporters/issues.py (class IssuesExporter).                *)
(*                                                                         *)
(* Python values are written as follows.  A str is the sequence of its     *)
(* characters (<<"7", ":", "A">> is '7:A'), None is the value None below,  *)
(* a namedtuple is the tuple of its fields, a dict is a function, a list   *)
(* is a sequence.  Identifying values of Redmine resources (logins, names, *)
(* identifiers) are only ever used as dictionary keys and are kept as      *)
(* strings.                                                                *)
(***************************************************************************)
EXTENDS Integers, Sequences, FiniteSets, TLC

VARIABLES
    EXPORT_ISSUE_JOURNALS,     \* config.EXPORT_ISSUE_JOURNALS, fixed for a run
    resource_value_mappings,   \* self._resource_value_mappings (dynamic table)
    banners,                   \* times the "Resource value mappings definition" banner was echoed
    last_call,                 \* observation of the last _get_resource_mapping call
    first_answer,              \* history: the operator's first accepted answer per resolved resource
    issues,                    \* export(issues): the issues not yet exported
    issues_export,             \* the issues_export dictionary of export()
    exported,                  \* history: the source issues exported so far, in order
    issues_export_before,      \* history: the document before the last issue was exported
    journal_issue,             \* _coalesce_journal_details: the issue argument
    journal_details,           \* ... the journal_details argument as passed (details by property)
    normalized,                \* ... the outcome: the dictionary as left, or the exception raised
    prompt,                    \* the call of _get_resource_mapping under way: the prompt waiting, the lines typed
    mapped,                    \* _get_custom_field_value_mapping applied to a custom field: the argument, the outcome
    raised,                    \* export(): the exception that ended the run, if any
    startup,                   \* a run from the construction of the exporter on: the settings, check_config, how far it got
    REDMINE_TEXT_FORMATTING,   \* config.REDMINE_TEXT_FORMATTING, fixed for a run
    lookup,                    \* _lookup_journal_detail_property_value applied to a raw value: the arguments, the outcome
    history                    \* _save_journals applied to an issue: the outcome (the history list written, the exception raised)

vars == <<EXPORT_ISSUE_JOURNALS, resource_value_mappings, banners, last_call,
          first_answer, issues, issues_export, exported, issues_export_before,
          journal_issue, journal_details, normalized, prompt, mapped, raised,
          startup, REDMINE_TEXT_FORMATTING, lookup, history>>

\* The variables of the export loop
exportVars == <<issues, issues_export, exported, issues_export_before, raised>>

\* The variables of the journal normalizer
journalVars == <<journal_issue, journal_details, normalized>>

\* The text formatting, and the variables of the history writer
historyVars == <<REDMINE_TEXT_FORMATTING, lookup, history>>

\* The variables of a run followed from the construction of the exporter
runVars == <<startup, mapped, historyVars>>

\* No call of _get_resource_mapping under way
NoPrompt == [waiting |-> "none", typed |-> FALSE, returned |-> FALSE]

\* The text formatting of the instance; no value looked up, no history written
NoHistory ==
    /\ REDMINE_TEXT_FORMATTING = "textile"
    /\ lookup = [done |-> FALSE]
    /\ history = [done |-> FALSE]

\* No run followed from the construction of the exporter
NoRun == startup = [phase |-> "none"] /\ mapped = [done |-> FALSE] /\ NoHistory

\* The journal normalizer not called
NoJournal ==
    /\ journal_issue = <<>>
    /\ journal_details = <<>>
    /\ normalized = [done |-> FALSE]

None == <<"None">>

(***************************************************************************)
(* resources/mappings.py and resources/models.py: the resource type        *)
(* catalog.                                                                *)
(***************************************************************************)
ResourceTypeMapping(redmine, jira) == <<redmine, jira>>

ResourceKey(id, key) == <<id, key>>

ResourceKeyFields == <<"id", "key">>

user_rtp == ResourceTypeMapping("RedmineUser", "JiraUser")
group_user_rtp == ResourceTypeMapping("RedmineGroup", "JiraUser")
project_rtp == ResourceTypeMapping("RedmineProject", "JiraProject")
tracker_issue_type_rtp == ResourceTypeMapping("RedmineTracker", "JiraIssueType")
issue_status_rtp == ResourceTypeMapping("RedmineIssueStatus", "JiraIssueStatus")
issue_priority_rtp == ResourceTypeMapping("RedmineIssuePriority", "JiraIssuePriority")
issue_category_component_rtp ==
    ResourceTypeMapping("RedmineIssueCategory", "JiraProjectComponent")
issue_category_label_rtp == ResourceTypeMapping("RedmineIssueCategory", "JiraLabel")
version_rtp == ResourceTypeMapping("RedmineVersion", "JiraVersion")
custom_field_rtp == ResourceTypeMapping("RedmineCustomField", "JiraCustomField")
relationship_field_rtp ==
    ResourceTypeMapping("RedmineRelationshipField", "JiraLinkField")

ALL_RESOURCE_TYPE_MAPPINGS ==
    << user_rtp, group_user_rtp, project_rtp, tracker_issue_type_rtp,
       issue_status_rtp, issue_priority_rtp, issue_category_component_rtp,
       issue_category_label_rtp, version_rtp, custom_field_rtp,
       relationship_field_rtp >>

RESOURCE_TYPE_MAPPINGS_BY_PROJECT ==
    << issue_category_component_rtp, issue_category_label_rtp >>

\* The dict of identifying field mappings, in declaration order: each entry
\* is the key (a ResourceTypeMapping) with the keys of the Redmine and Jira
\* identifying fields of its FieldMapping.
RESOURCE_TYPE_IDENTIFYING_FIELD_MAPPINGS ==
    << [k |-> user_rtp, redmine |-> "login", jira |-> "username"],
       [k |-> group_user_rtp, redmine |-> "name", jira |-> "username"],
       [k |-> project_rtp, redmine |-> "identifier", jira |-> "key"],
       [k |-> tracker_issue_type_rtp, redmine |-> "name", jira |-> "name"],
       [k |-> issue_status_rtp, redmine |-> "name", jira |-> "name"],
       [k |-> issue_priority_rtp, redmine |-> "name", jira |-> "name"],
       [k |-> issue_category_component_rtp, redmine |-> "name", jira |-> "name"],
       [k |-> issue_category_label_rtp, redmine |-> "name", jira |-> "name"],
       [k |-> version_rtp, redmine |-> "name", jira |-> "name"],
       [k |-> custom_field_rtp, redmine |-> "name", jira |-> "name"],
       [k |-> relationship_field_rtp, redmine |-> "name", jira |-> "name"] >>

\* underscore(cls.__name__).upper() of the resource type classes
UnderscoreUpper(class_name) ==
    CASE class_name = "RedmineUser" -> "REDMINE_USER"
      [] class_name = "RedmineGroup" -> "REDMINE_GROUP"
      [] class_name = "RedmineProject" -> "REDMINE_PROJECT"
      [] class_name = "RedmineTracker" -> "REDMINE_TRACKER"
      [] class_name = "RedmineIssueStatus" -> "REDMINE_ISSUE_STATUS"
      [] class_name = "RedmineIssuePriority" -> "REDMINE_ISSUE_PRIORITY"
      [] class_name = "RedmineIssueCategory" -> "REDMINE_ISSUE_CATEGORY"
      [] class_name = "RedmineVersion" -> "REDMINE_VERSION"
      [] class_name = "RedmineCustomField" -> "REDMINE_CUSTOM_FIELD"
      [] class_name = "RedmineRelationshipField" -> "REDMINE_RELATIONSHIP_FIELD"
      [] class_name = "JiraLinkField" -> "JIRA_LINK_FIELD"
      [] class_name = "JiraUser" -> "JIRA_USER"
      [] class_name = "JiraProject" -> "JIRA_PROJECT"
      [] class_name = "JiraIssueType" -> "JIRA_ISSUE_TYPE"
      [] class_name = "JiraIssueStatus" -> "JIRA_ISSUE_STATUS"
      [] class_name = "JiraIssuePriority" -> "JIRA_ISSUE_PRIORITY"
      [] class_name = "JiraProjectComponent" -> "JIRA_PROJECT_COMPONENT"
      [] class_name = "JiraLabel" -> "JIRA_LABEL"
      [] class_name = "JiraVersion" -> "JIRA_VERSION"
      [] class_name = "JiraCustomField" -> "JIRA_CUSTOM_FIELD"

\* '{}_{}_MAPPINGS'.format(...): the name of the setting holding the static
\* value mappings of a resource type mapping
SettingNames ==
    [rtp \in {ALL_RESOURCE_TYPE_MAPPINGS[i] :
                 i \in DOMAIN ALL_RESOURCE_TYPE_MAPPINGS} |->
        UnderscoreUpper(rtp[1]) \o "_" \o UnderscoreUpper(rtp[2]) \o
        "_MAPPINGS"]

SettingName(redmine_resource_type, jira_resource_type) ==
    SettingNames[ResourceTypeMapping(redmine_resource_type,
                                     jira_resource_type)]

(***************************************************************************)
(* Python helpers.                                                         *)
(***************************************************************************)
EmptyDict == <<>>

\* dict.get(key, default) and getattr(obj, name, default)
Get(d, key, default) == IF key \in DOMAIN d THEN d[key] ELSE default

Min(S) == CHOOSE n \in S : \A m \in S : n <= m

\* str.split(sep) for a one-character separator: the list of the pieces
\* between the separators
RECURSIVE Split(_, _)
Split(s, sep) ==
    IF \A i \in 1..Len(s) : s[i] # sep
    THEN <<s>>
    ELSE LET i == Min({j \in 1..Len(s) : s[j] = sep})
         IN <<SubSeq(s, 1, i - 1)>> \o Split(SubSeq(s, i + 1, Len(s)), sep)

Digits == <<"0", "1", "2", "3", "4", "5", "6", "7", "8", "9">>

IsDigit(c) == \E d \in 1..Len(Digits) : Digits[d] = c

DigitValue(c) == (CHOOSE d \in 1..Len(Digits) : Digits[d] = c) - 1

\* int(s) for a str of decimal digits; IsInt tells whether int(s) succeeds
\* (the inputs of the model carry no sign, blank or underscore)
IsInt(s) == Len(s) > 0 /\ \A i \in 1..Len(s) : IsDigit(s[i])

RECURSIVE ParseInt(_)
ParseInt(s) ==
    IF Len(s) = 0 THEN 0
    ELSE 10 * ParseInt(SubSeq(s, 1, Len(s) - 1)) + DigitValue(s[Len(s)])

(***************************************************************************)
(* The Redmine instance and the configuration of the modelled runs.        *)
(***************************************************************************)
\* project_id=None, the default of _get_resource_mapping
NoProjectId == 0

\* self._projects: project ID -> project (its identifier)
projects == (1 :> [id |-> 1, identifier |-> "p1"]) @@
            (2 :> [id |-> 2, identifier |-> "p2"]) @@
            (3 :> [id |-> 3, identifier |-> "p3"])

\* A static value mapping in the form the configuration asks for: the
\* identifying name or, when journals are exported, (ID, identifying name)
StaticForm(journals, id, name) == IF journals THEN <<id, name>> ELSE name

\* The settings module: setting name -> static value mappings.  The users
\* have static mappings (bob and carol onto the same Jira user), the category "legacy" of project p1 a static label
\* mapping, the versions v3 and v4 static mappings (not nested by project);
\* the tracker, the status, the priority and the custom field Reviewed have
\* static mappings; every other resource has none.
Settings(journals) ==
    ("REDMINE_USER_JIRA_USER_MAPPINGS" :>
        (("alice" :> StaticForm(journals, <<"1">>, <<"a">>)) @@
         ("bob" :> StaticForm(journals, <<"2">>, <<"b">>)) @@
         ("carol" :> StaticForm(journals, <<"2">>, <<"b">>)))) @@
    ("REDMINE_GROUP_JIRA_USER_MAPPINGS" :> EmptyDict) @@
    ("REDMINE_PROJECT_JIRA_PROJECT_MAPPINGS" :> EmptyDict) @@
    ("REDMINE_ISSUE_CATEGORY_JIRA_COMPONENT_MAPPINGS" :> EmptyDict) @@
    ("REDMINE_ISSUE_CATEGORY_JIRA_LABEL_MAPPINGS" :>
        ("p1" :> ("legacy" :> StaticForm(journals, <<"9">>, <<"L">>)))) @@
    ("REDMINE_VERSION_JIRA_VERSION_MAPPINGS" :>
        (("v3" :> StaticForm(journals, <<"6">>, <<"V", "3">>)) @@
         ("v4" :> StaticForm(journals, <<"7">>, <<"V", "4">>)))) @@
    ("REDMINE_TRACKER_JIRA_ISSUE_TYPE_MAPPINGS" :>
        ("Defect" :> StaticForm(journals, <<"2">>, <<"B", "u", "g">>))) @@
    ("REDMINE_ISSUE_STATUS_JIRA_ISSUE_STATUS_MAPPINGS" :>
        ("New" :> StaticForm(journals, <<"3">>, <<"O", "p", "e", "n">>))) @@
    ("REDMINE_ISSUE_PRIORITY_JIRA_ISSUE_PRIORITY_MAPPINGS" :>
        ("Normal" :> StaticForm(journals, <<"4">>, <<"M", "e", "d">>))) @@
    ("REDMINE_CUSTOM_FIELD_JIRA_CUSTOM_FIELD_MAPPINGS" :>
        ("Reviewed" :> StaticForm(journals, <<"5">>, <<"R", "e", "v">>)))

config == [journals \in BOOLEAN |-> Settings(journals)]

(***************************************************************************)
(* IssuesExporter._get_resource_mapping                                    *)
(***************************************************************************)
\* {k.jira: v for k, v in RESOURCE_TYPE_IDENTIFYING_FIELD_MAPPINGS.items()
\*  if k.redmine == redmine_resource_type}, in iteration order
FieldMappingsByType ==
    [t \in {RESOURCE_TYPE_IDENTIFYING_FIELD_MAPPINGS[i].k[1] :
               i \in DOMAIN RESOURCE_TYPE_IDENTIFYING_FIELD_MAPPINGS} |->
        SelectSeq(RESOURCE_TYPE_IDENTIFYING_FIELD_MAPPINGS,
                  LAMBDA e : e.k[1] = t)]

jira_resource_type_field_mappings(redmine_resource_type) ==
    FieldMappingsByType[redmine_resource_type]

\* "for ... in mappings: value = ...; if value is not None: break", given
\* the value each iteration would find: the index the loop variables are
\* left at and the value found
SearchLoop(probes) ==
    LET hits == {i \in 1..Len(probes) : probes[i] # None}
        at == IF hits = {} THEN Len(probes) ELSE Min(hits)
    IN  [at |-> at,
         jira_resource_value |-> IF hits = {} THEN None ELSE probes[at]]

\* One probe of the static tables (the body of the first loop)
StaticProbe(journals, mapping, resource, project_id) ==
    LET name == SettingName(mapping.k[1], mapping.k[2])
        redmine_resource_value == resource[mapping.redmine]
        all_mappings == Get(config[journals], name, EmptyDict)
        static_resource_value_mappings ==
            IF project_id # NoProjectId
            THEN Get(all_mappings, projects[project_id].identifier, EmptyDict)
            ELSE all_mappings
    IN  Get(static_resource_value_mappings, redmine_resource_value, None)

\* A slip: the project scope left out of the key
DynamicKey_Unscoped(project_id, redmine_resource_value, resource_type_mapping) ==
    <<redmine_resource_value, resource_type_mapping>>

\* The key of a dynamic value mapping
DynamicKey(project_id, redmine_resource_value, resource_type_mapping) ==
    IF project_id = NoProjectId
    THEN <<redmine_resource_value, resource_type_mapping>>
    ELSE <<project_id, redmine_resource_value, resource_type_mapping>>

\* A slip: the dynamic table read without the project scope
DynamicProbe_Unscoped(rvm, mapping, resource, project_id) ==
    Get(rvm, <<resource[mapping.redmine], mapping.k>>, None)

\* One probe of the dynamic table (the body of the second loop)
DynamicProbe(rvm, mapping, resource, project_id) ==
    Get(rvm, DynamicKey(project_id, resource[mapping.redmine], mapping.k), None)

\* Search for a statically user-defined value mapping
StaticSearch(journals, mappings, resource, project_id) ==
    SearchLoop([i \in 1..Len(mappings) |->
                   StaticProbe(journals, mappings[i], resource, project_id)])

\* A slip: the second loop without its break, which leaves the value of the
\* last probe
DynamicSearch_NoBreak(rvm, mappings, resource, project_id) ==
    [at |-> Len(mappings),
     jira_resource_value |->
         DynamicProbe(rvm, mappings[Len(mappings)], resource, project_id)]

\* Search for a dynamically user-defined value mapping
DynamicSearch(rvm, mappings, resource, project_id) ==
    SearchLoop([i \in 1..Len(mappings) |->
                   DynamicProbe(rvm, mappings[i], resource, project_id)])

\* click.IntRange(1, n) on one line of input: is it accepted?
IntRangeAccepts(line, n) ==
    IsInt(line) /\ ParseInt(line) >= 1 /\ ParseInt(line) <= n

\* parse_id_unique_name: ResourceKey._make(value.split(':')) raises
\* TypeError, turned into UsageError, unless the split has two pieces
ValueAccepted(journals, line) ==
    /\ Len(line) > 0          \* click.prompt asks again on an empty line
    /\ journals => Len(Split(line, ":")) = Len(ResourceKeyFields)

parse_id_unique_name(line) ==
    LET pieces == Split(line, ":") IN ResourceKey(pieces[1], pieces[2])

\* A slip: the prompt not shown again after a rejected line
Prompt_NotAgain(accepted) ==
    IF accepted # <<>> /\ accepted[1] THEN 1 ELSE 0

\* click.prompt: ask again until a line is accepted, given for each line the
\* operator types whether it is accepted; the position of the accepted line
\* (0: none of the lines is accepted)
Prompt(accepted) ==
    LET ok == {i \in 1..Len(accepted) : accepted[i]}
    IN  IF ok = {} THEN 0 ELSE Min(ok)

\* The value returned for a mapped value
ReturnedValue(journals, jira_resource_value, include_internal_id) ==
    IF journals /\ ~include_internal_id
    THEN jira_resource_value[2]
    ELSE jira_resource_value

\* A slip: the dynamic table searched before the static tables
Search_DynamicFirst(rvm, journals, resource, redmine_resource_type, project_id) ==
    LET mappings == jira_resource_type_field_mappings(redmine_resource_type)
        dynamic == DynamicSearch(rvm, mappings, resource, project_id)
    IN  IF dynamic.jira_resource_value # None
        THEN dynamic
        ELSE LET static == StaticSearch(journals, mappings, resource, project_id)
             IN  IF static.jira_resource_value # None THEN static ELSE dynamic

\* The two searches of the method: what they leave in jira_resource_value
\* and in the loop variables (at: the index of the mapping the last loop
\* that ran stopped at)
Search(rvm, journals, resource, redmine_resource_type, project_id) ==
    LET mappings == jira_resource_type_field_mappings(redmine_resource_type)
        static == StaticSearch(journals, mappings, resource, project_id)
    IN  IF static.jira_resource_value # None
        THEN static
        ELSE DynamicSearch(rvm, mappings, resource, project_id)

\* A slip: the type mapping not rebuilt after the menu, so that the one of
\* the last probe is recorded and returned
RecordedTypeMapping_LastProbed(redmine_resource_type, mappings, chosen, at) ==
    ResourceTypeMapping(redmine_resource_type, mappings[at].k[2])

\* resource_type_mapping = ResourceTypeMapping(redmine_resource_type,
\* jira_resource_type) after the prompts: jira_resource_type is the type
\* chosen at the menu or, without a menu, the one of the last probe (at)
RecordedTypeMapping(redmine_resource_type, mappings, chosen, at) ==
    ResourceTypeMapping(redmine_resource_type, mappings[chosen].k[2])

\* A slip: the banner echoed before every prompt
Banner_Always(rvm) == TRUE

\* "if not self._resource_value_mappings": is the banner echoed?
Banner(rvm) == rvm = EmptyDict

\* "No value mapping found!": the interactive definition of a mapping, after
\* a search that found none.  menu_lines and value_lines are the lines the
\* operator types at the two prompts.
Define(search, rvm, journals, resource, redmine_resource_type, project_id, menu_lines, value_lines) ==
    LET mappings == jira_resource_type_field_mappings(redmine_resource_type)
        menu == Len(mappings) > 1
        choice == Prompt([i \in 1..Len(menu_lines) |->
                             IntRangeAccepts(menu_lines[i], Len(mappings))])
        asked == Prompt([i \in 1..Len(value_lines) |->
                            ValueAccepted(journals, value_lines[i])])
        chosen == IF menu THEN ParseInt(menu_lines[choice]) ELSE search.at
        redmine_resource_value == resource[mappings[search.at].redmine]
        answer == IF journals THEN parse_id_unique_name(value_lines[asked])
                  ELSE value_lines[asked]
        resource_type_mapping ==
            RecordedTypeMapping(redmine_resource_type, mappings, chosen,
                                search.at)
        key == DynamicKey(project_id, redmine_resource_value,
                          resource_type_mapping)
    IN  IF (menu /\ choice = 0) \/ asked = 0
        THEN \* the prompt is still waiting for an acceptable line
             [returns |-> FALSE, jira_resource_value |-> None,
              resource_type_mapping |-> None,
              rvm |-> rvm, banner |-> Banner(rvm), menu |-> menu,
              prompted |-> TRUE,
              menu_asked |-> IF menu THEN Len(menu_lines) ELSE 0,
              value_asked |-> IF menu /\ choice = 0 THEN 0 ELSE Len(value_lines)]
        ELSE [returns |-> TRUE,
              jira_resource_value |-> answer,
              resource_type_mapping |-> resource_type_mapping,
              rvm |-> (key :> answer) @@ rvm,
              banner |-> Banner(rvm), menu |-> menu,
              prompted |-> TRUE,
              menu_asked |-> IF menu THEN choice ELSE 0,
              value_asked |-> asked]

\* The whole method.  The result tells what the method returns
\* (jira_resource_value, resource_type_mapping), the dynamic table it
\* leaves, and what it printed and asked.
get_resource_mapping(rvm, journals, resource, redmine_resource_type, project_id, include_internal_id, menu_lines, value_lines) ==
    LET mappings == jira_resource_type_field_mappings(redmine_resource_type)
        Found(search) ==
            IF search.jira_resource_value # None
            THEN [returns |-> TRUE,
                  jira_resource_value |-> search.jira_resource_value,
                  resource_type_mapping |-> mappings[search.at].k,
                  rvm |-> rvm, banner |-> FALSE, menu |-> FALSE,
                  prompted |-> FALSE, menu_asked |-> 0, value_asked |-> 0]
            ELSE Define(search, rvm, journals, resource,
                        redmine_resource_type, project_id,
                        menu_lines, value_lines)
        Returned(found) ==
            [found EXCEPT !.jira_resource_value =
                IF found.returns
                THEN ReturnedValue(journals, found.jira_resource_value,
                                   include_internal_id)
                ELSE None]
    IN  Returned(Found(Search(rvm, journals, resource, redmine_resource_type,
                              project_id)))

(***************************************************************************)
(* The resolver during one export run: the calls that the export makes to  *)
(* _get_resource_mapping, in any order, on the resources of the instance.  *)
(***************************************************************************)
\* self._users (by login), self._issue_categories and self._versions (by
\* project ID, by name)
users == {"alice"}

issue_categories == (1 :> {"ui", "db", "legacy"}) @@ (2 :> {}) @@ (3 :> {})

versions == (1 :> {"v1"}) @@ (2 :> {"v1"}) @@ (3 :> {})

\* Most lines the operator has rejected before typing an accepted one
MaxRejected == 1

\* The lines the menu of n choices accepts
Choices(n) == {<<Digits[c + 1]>> : c \in 1..n}

\* The values the operator maps resources to, as typed at the value prompt
Answers(journals) ==
    IF journals
    THEN {<<"7", ":", "A">>, <<"8", ":", "B">>}
    ELSE {<<"A">>, <<"B">>}

\* What the operator may type at the resource type menu of n choices: lines
\* that are rejected (not an integer, out of range), then a choice
MenuLines(n) ==
    IF n <= 1 THEN {<<>>}
    ELSE LET good == Choices(n)
             bad == {<<"x">>, <<Digits[n + 2]>>}
             RECURSIVE Rejected(_)
             Rejected(k) ==
                 IF k = 0 THEN {<<>>}
                 ELSE Rejected(k - 1) \cup
                      {r \o <<b>> : r \in Rejected(k - 1), b \in bad}
         IN  {r \o <<g>> : r \in Rejected(MaxRejected), g \in good}

\* What the operator may type at the value prompt
ValueLines(journals) ==
    LET good == Answers(journals)
        bad == IF journals
               THEN {<<"A">>, <<"7", ":", "A", ":", "B">>}
               ELSE {<<>>}
        RECURSIVE Rejected(_)
        Rejected(k) ==
            IF k = 0 THEN {<<>>}
            ELSE Rejected(k - 1) \cup
                 {r \o <<b>> : r \in Rejected(k - 1), b \in bad}
    IN  {r \o <<g>> : r \in Rejected(MaxRejected), g \in good}

NoCall ==
    [made |-> FALSE, resource |-> EmptyDict, resource_type |-> "", value |-> "",
     project_id |-> NoProjectId,
     include_internal_id |-> FALSE, first |-> FALSE, static |-> FALSE,
     prompted |-> FALSE, banner |-> FALSE, menu |-> FALSE,
     chosen |-> <<>>, typed |-> <<>>,
     jira_resource_value |-> None, resource_type_mapping |-> None]

\* Does the configuration hold a static mapping of the resource?
HasStaticMapping(journals, resource, redmine_resource_type, project_id) ==
    \E i \in 1..Len(jira_resource_type_field_mappings(redmine_resource_type)) :
        StaticProbe(journals,
                    jira_resource_type_field_mappings(redmine_resource_type)[i],
                    resource, project_id) # None

\* A call of _get_resource_mapping and what it is observed to do
Resolve(resource, value, redmine_resource_type, project_id, include_internal_id) ==
    LET journals == EXPORT_ISSUE_JOURNALS
        n == Len(jira_resource_type_field_mappings(redmine_resource_type))
        id == <<redmine_resource_type, value, project_id>>
        Done(r, menu_lines, value_lines) ==
            /\ r.returns
            /\ resource_value_mappings' = r.rvm
            /\ banners' = banners + (IF r.banner THEN 1 ELSE 0)
            /\ last_call' =
                 [made |-> TRUE, resource |-> resource,
                  resource_type |-> redmine_resource_type,
                  value |-> value, project_id |-> project_id,
                  include_internal_id |-> include_internal_id,
                  first |-> id \notin DOMAIN first_answer,
                  static |-> HasStaticMapping(journals, resource,
                                              redmine_resource_type, project_id),
                  prompted |-> r.prompted, banner |-> r.banner,
                  menu |-> r.menu,
                  chosen |-> IF r.menu THEN menu_lines[Len(menu_lines)] ELSE <<>>,
                  typed |-> IF r.prompted THEN value_lines[Len(value_lines)]
                            ELSE <<>>,
                  jira_resource_value |-> r.jira_resource_value,
                  resource_type_mapping |-> r.resource_type_mapping]
            /\ first_answer' =
                 IF r.prompted /\ id \notin DOMAIN first_answer
                 THEN (id :> [typed |-> value_lines[Len(value_lines)],
                              resource_type_mapping |-> r.resource_type_mapping])
                      @@ first_answer
                 ELSE first_answer
        found == Search(resource_value_mappings, journals, resource,
                        redmine_resource_type, project_id)
    IN  IF found.jira_resource_value # None
        THEN Done(get_resource_mapping(resource_value_mappings, journals,
                                       resource, redmine_resource_type,
                                       project_id, include_internal_id,
                                       <<>>, <<>>),
                  <<>>, <<>>)
        ELSE \E menu_lines \in MenuLines(n), value_lines \in ValueLines(journals) :
                Done(get_resource_mapping(resource_value_mappings, journals,
                                          resource, redmine_resource_type,
                                          project_id, include_internal_id,
                                          menu_lines, value_lines),
                     menu_lines, value_lines)

\* _get_author_mapping, _get_assigned_to_mapping, _save_watchers,
\* _save_attachments, _save_journal_notes, the author of a history event:
\* a user, no project scope
GetUserMapping ==
    \E login \in users :
        /\ Resolve([login |-> login], login, "RedmineUser", NoProjectId, FALSE)
        /\ UNCHANGED <<EXPORT_ISSUE_JOURNALS, exportVars, journalVars, prompt, runVars>>

\* _get_category_mapping: the category of an issue of the project
GetCategoryMapping ==
    \E project_id \in DOMAIN projects :
        \E name \in issue_categories[project_id] :
            /\ Resolve([name |-> name], name, "RedmineIssueCategory",
                       project_id, FALSE)
            /\ UNCHANGED <<EXPORT_ISSUE_JOURNALS, exportVars, journalVars, prompt, runVars>>

\* _get_custom_field_value_mapping: the version held by a version custom
\* field of an issue of the project, resolved with no project scope
GetVersionCustomFieldValueMapping ==
    \E project_id \in DOMAIN projects :
        \E name \in versions[project_id] :
            /\ Resolve([name |-> name], name, "RedmineVersion", NoProjectId,
                       FALSE)
            /\ UNCHANGED <<EXPORT_ISSUE_JOURNALS, exportVars, journalVars, prompt, runVars>>

\* _get_journal_detail_field_mapping: the old or new value of a change of
\* category_id or fixed_version_id (project scope) or of assigned_to_id
GetJournalDetailFieldMapping ==
    /\ \/ \E project_id \in DOMAIN projects :
            \E name \in issue_categories[project_id] :
                Resolve([name |-> name], name, "RedmineIssueCategory",
                        project_id, TRUE)
       \/ \E project_id \in DOMAIN projects :
            \E name \in versions[project_id] :
                Resolve([name |-> name], name, "RedmineVersion", project_id,
                        TRUE)
       \/ \E login \in users :
            Resolve([login |-> login], login, "RedmineUser", NoProjectId, TRUE)
    /\ UNCHANGED <<EXPORT_ISSUE_JOURNALS, exportVars, journalVars, prompt, runVars>>

\* export(): issues_export = dict(), self._resource_value_mappings = dict(),
\* before the first issue; here with no issue to export, the resolver being
\* called directly
Init ==
    /\ EXPORT_ISSUE_JOURNALS \in BOOLEAN
    /\ resource_value_mappings = EmptyDict
    /\ banners = 0
    /\ last_call = NoCall
    /\ first_answer = EmptyDict
    /\ issues = <<>>
    /\ issues_export = EmptyDict
    /\ exported = <<>>
    /\ issues_export_before = EmptyDict
    /\ raised = ""
    /\ NoJournal
    /\ prompt = NoPrompt
    /\ NoRun

Next ==
    \/ GetUserMapping
    \/ GetCategoryMapping
    \/ GetVersionCustomFieldValueMapping
    \/ GetJournalDetailFieldMapping

Spec == Init /\ [][Next]_vars

(***************************************************************************)
(* Properties of the resolver.                                             *)
(***************************************************************************)
\* The resource of the last call, as the history knows it
LastId == <<last_call.resource_type, last_call.value, last_call.project_id>>

\* What a call returns for an answer the operator typed
ReturnedForTyped(journals, typed, include_internal_id) ==
    ReturnedValue(journals,
                  IF journals THEN parse_id_unique_name(typed) ELSE typed,
                  include_internal_id)

\* C1: for a resource with no static mapping, the first call of a run asks
\* the operator, and every later call for the same resource (same type, same
\* project scope) asks nothing and returns the value of the first answer
\* with the type mapping of the first answer.
C1_IdempotentMappingReuse ==
    (last_call.made /\ ~last_call.static) =>
        /\ last_call.first <=> last_call.prompted
        /\ LastId \in DOMAIN first_answer
        /\ last_call.resource_type_mapping =
               first_answer[LastId].resource_type_mapping
        /\ last_call.jira_resource_value =
               ReturnedForTyped(EXPORT_ISSUE_JOURNALS,
                                first_answer[LastId].typed,
                                last_call.include_internal_id)

\* C1 witness: a later call for a resource already answered, several other
\* mappings having been defined in between
C1_Witness ==
    /\ last_call.made /\ ~last_call.static /\ ~last_call.first
    /\ ~last_call.prompted
    /\ Cardinality(DOMAIN resource_value_mappings) >= 3

\* C2: the dynamic table only grows: a call never changes or removes the
\* value a key holds, and a call answered from the dynamic table returns the
\* value the key held before the call.
C2_DynamicTableAppendOnly ==
    [][/\ \A k \in DOMAIN resource_value_mappings :
            /\ k \in DOMAIN resource_value_mappings'
            /\ resource_value_mappings'[k] = resource_value_mappings[k]
       /\ (last_call'.made /\ ~last_call'.static /\ ~last_call'.prompted) =>
            LET k == DynamicKey(last_call'.project_id, last_call'.value,
                                last_call'.resource_type_mapping)
            IN  /\ k \in DOMAIN resource_value_mappings
                /\ resource_value_mappings' = resource_value_mappings
                /\ last_call'.jira_resource_value =
                       ReturnedValue(EXPORT_ISSUE_JOURNALS,
                                     resource_value_mappings[k],
                                     last_call'.include_internal_id)]_vars

\* C2 witness: a call answered from a dynamic table that holds several keys
C2_Witness ==
    /\ last_call.made /\ ~last_call.static /\ ~last_call.prompted
    /\ Cardinality(DOMAIN resource_value_mappings) >= 2

\* The answers the operator can have a mapping recorded with
RecordableAnswers(journals) ==
    {IF journals THEN parse_id_unique_name(lines[Len(lines)])
     ELSE lines[Len(lines)] : lines \in ValueLines(journals)}

\* C3: a call for a resource with a static mapping returns the static value
\* of the first target type that has one, asks nothing and leaves the
\* dynamic table alone; and it would do the same were a dynamic mapping
\* recorded for the same source value and scope, under any target type.
C3_StaticPrecedence ==
    (last_call.made /\ last_call.static) =>
        LET journals == EXPORT_ISSUE_JOURNALS
            mappings == jira_resource_type_field_mappings(last_call.resource_type)
            Static(i) == StaticProbe(journals, mappings[i], last_call.resource,
                                     last_call.project_id)
            hit == Min({i \in 1..Len(mappings) : Static(i) # None})
            expected == ReturnedValue(journals, Static(hit),
                                      last_call.include_internal_id)
        IN  /\ ~last_call.prompted
            /\ last_call.resource_type_mapping = mappings[hit].k
            /\ last_call.jira_resource_value = expected
            /\ \A i \in 1..Len(mappings), answer \in RecordableAnswers(journals) :
                 LET both == (DynamicKey(last_call.project_id, last_call.value,
                                         mappings[i].k) :> answer)
                             @@ resource_value_mappings
                     r == get_resource_mapping(both, journals,
                                               last_call.resource,
                                               last_call.resource_type,
                                               last_call.project_id,
                                               last_call.include_internal_id,
                                               <<>>, <<>>)
                 IN  /\ r.returns /\ ~r.prompted
                     /\ r.jira_resource_value = expected
                     /\ r.resource_type_mapping = mappings[hit].k
                     /\ r.rvm = both

\* C3 witness: a static mapping found under the second target type probed,
\* while the dynamic table holds mappings
C3_Witness ==
    /\ last_call.made /\ last_call.static
    /\ last_call.resource_type_mapping = issue_category_label_rtp
    /\ resource_value_mappings # EmptyDict

\* The resources answered so far that differ from the last call's resource
\* by the project scope only
OtherScopes ==
    {id \in DOMAIN first_answer :
        /\ id[1] = last_call.resource_type
        /\ id[2] = last_call.value
        /\ id[3] # last_call.project_id}

\* C4: a call for a resource with no static mapping that was not answered
\* before under the same project scope asks the operator and returns the
\* answer typed now, whatever was answered for the same source value under
\* other project scopes or under none.
C4_ScopeIsolation ==
    (last_call.made /\ ~last_call.static /\ last_call.first) =>
        /\ last_call.prompted
        /\ last_call.jira_resource_value =
               ReturnedForTyped(EXPORT_ISSUE_JOURNALS, last_call.typed,
                                last_call.include_internal_id)
        /\ \A id \in OtherScopes :
               LET k == DynamicKey(id[3], id[2],
                                   first_answer[id].resource_type_mapping)
               IN  /\ k \in DOMAIN resource_value_mappings
                   /\ resource_value_mappings[k] =
                          ReturnedForTyped(EXPORT_ISSUE_JOURNALS,
                                           first_answer[id].typed, TRUE)

\* C4 witness: the operator asked under no scope for a value already
\* answered, differently, under two project scopes
C4_Witness ==
    /\ last_call.made /\ last_call.first /\ last_call.prompted
    /\ last_call.project_id = NoProjectId
    /\ Cardinality(OtherScopes) = 2
    /\ \A id \in OtherScopes : first_answer[id].typed # last_call.typed

\* C4 witness: the operator asked under a project scope for a value already
\* answered under no scope and under another project
C4_WitnessScoped ==
    /\ last_call.made /\ last_call.first /\ last_call.prompted
    /\ last_call.project_id # NoProjectId
    /\ Cardinality(OtherScopes) = 2

\* C5: every first call for a category with no static mapping shows the
\* target type menu, whatever was chosen for other categories, and returns
\* the type chosen now; every later call returns the type chosen for that
\* category and project.
C5_TypeMappingIndependence ==
    (last_call.made /\ ~last_call.static
        /\ last_call.resource_type = "RedmineIssueCategory") =>
        LET mappings == jira_resource_type_field_mappings(last_call.resource_type)
        IN  /\ last_call.first =>
                /\ last_call.menu
                /\ last_call.resource_type_mapping =
                       mappings[ParseInt(last_call.chosen)].k
            /\ ~last_call.first =>
                /\ ~last_call.menu
                /\ last_call.resource_type_mapping =
                       first_answer[LastId].resource_type_mapping

\* C5 witness: "ui" of project 1 was resolved to a component, then "db" of
\* the same project to a label, and "ui" is returned as a component again
C5_Witness ==
    /\ last_call.made /\ ~last_call.first /\ last_call.value = "ui"
    /\ last_call.resource_type_mapping = issue_category_component_rtp
    /\ <<"RedmineIssueCategory", "db", 1>> \in DOMAIN first_answer
    /\ first_answer[<<"RedmineIssueCategory", "db", 1>>].resource_type_mapping
           = issue_category_label_rtp

\* C25: wherever a version is resolved, the custom field value path included,
\* the call carries the project of the issue, so that the static table is
\* read under the project identifier and the dynamic key holds the project.
C25_VersionsResolvedPerProject ==
    last_call.made /\ last_call.resource_type = "RedmineVersion"
        => last_call.project_id # NoProjectId

\* C17: the banner is echoed exactly once in a run, by the call that shows
\* the first prompt of the run: no banner while no mapping was asked for
\* (every lookup so far resolved statically), one banner from the first
\* answered prompt on, and a call echoes the banner exactly when it is the
\* one whose prompt gave the run its first answer.
C17_BannerOnceBeforeFirstPrompt ==
    /\ banners = IF first_answer = EmptyDict THEN 0 ELSE 1
    /\ last_call.made =>
          (last_call.banner <=>
              /\ last_call.prompted
              /\ Cardinality(DOMAIN first_answer) = 1)

\* C17 witness: a later prompt of the run, for a resource of another type
\* and scope than the first one asked for, without a banner
C17_Witness ==
    /\ banners = 1
    /\ last_call.made /\ last_call.prompted /\ ~last_call.banner
    /\ last_call.resource_type = "RedmineVersion"
    /\ last_call.project_id = NoProjectId
    /\ <<"RedmineIssueCategory", "ui", 1>> \in DOMAIN first_answer
    /\ Cardinality(DOMAIN first_answer) = 2

(***************************************************************************)
(* IssuesExporter.export: the issue field projector and the export         *)
(* document assembler.                                                     *)
(***************************************************************************)
\* d[key] = value
Put(d, key, value) == (key :> value) @@ d

\* d.setdefault(key, []).append(value)
SetDefaultAppend(d, key, value) == Put(d, key, Append(Get(d, key, <<>>), value))

\* str(n) of a natural number
RECURSIVE Str(_)
Str(n) ==
    IF n < 10 THEN <<Digits[n + 1]>>
    ELSE Str(n \div 10) \o <<Digits[(n % 10) + 1]>>

\* date.isoformat() of the d-th day of January 2018 (d in 1..9)
isoformat(d) == <<"2", "0", "1", "8", "-", "0", "1", "-", "0", Digits[d + 1]>>

\* duration_isoformat(timedelta(hours=h)) for whole hours, 1 to 23
duration_isoformat(h) == <<"P", "T">> \o Str(h) \o <<"H">>


ALLOW_ISSUE_ASSIGNMENT_TO_GROUPS == TRUE

\* utils.text.text2confluence_wiki: the markup translation is kept as the
\* text marked as translated; None under a formatting that is not translated
text2confluence_wiki(text) ==
    IF REDMINE_TEXT_FORMATTING \in {"textile", "markdown"}
    THEN <<"confluence_wiki", text>>
    ELSE None

\* self._groups (by name): the instance has no group
groups == {}

\* self._issue_custom_fields (by ID): the custom field definitions
issue_custom_fields ==
    (5 :> [name |-> "Reviewed", field_format |-> "bool"]) @@
    (6 :> [name |-> "Owner", field_format |-> "user"]) @@
    (7 :> [name |-> "Scan", field_format |-> "attachment"]) @@
    (8 :> [name |-> "Kind", field_format |-> "list"]) @@
    (9 :> [name |-> "Ref", field_format |-> "link"]) @@
    (10 :> [name |-> "Title", field_format |-> "string"]) @@
    (11 :> [name |-> "Count", field_format |-> "int"]) @@
    (12 :> [name |-> "Target", field_format |-> "version"]) @@
    (13 :> [name |-> "Targets", field_format |-> "version",
            multiple |-> TRUE]) @@
    (14 :> [name |-> "Owners", field_format |-> "user", multiple |-> TRUE])

ISSUE_CUSTOM_FIELD_TYPE_MAPPINGS ==
    ("bool" :> ("single" :> "customfieldtypes:select")) @@
    ("date" :> ("single" :> "customfieldtypes:datepicker")) @@
    ("float" :> ("single" :> "customfieldtypes:float")) @@
    ("int" :> ("single" :> "customfieldtypes:float")) @@
    ("link" :> ("single" :> "customfieldtypes:url")) @@
    ("list" :> (("single" :> "customfieldtypes:select") @@
                ("multiple" :> "customfieldtypes:multiselect"))) @@
    ("text" :> ("single" :> "customfieldtypes:textarea")) @@
    ("string" :> ("single" :> "customfieldtypes:textfield")) @@
    ("user" :> (("single" :> "customfieldtypes:userpicker") @@
                ("multiple" :> "customfieldtypes:multiuserpicker"))) @@
    ("version" :> (("single" :> "customfieldtypes:version") @@
                   ("multiple" :> "customfieldtypes:multiversion")))

\* The state of one iteration of the export loop: the resolver's table and
\* banner count, whether every prompt so far was answered, the value and
\* type mapping the last resolver call returned, the document, the index of
\* the project bucket (project_export) and the issue dictionary
\* (issue_export)
Iteration(journals, rvm, banner_count, document) ==
    [journals |-> journals, rvm |-> rvm, banners |-> banner_count,
     returns |-> TRUE, raises |-> "", value |-> None, type |-> None,
     issues_export |-> document, project_export |-> 0,
     issue_export |-> EmptyDict]

\* self._get_resource_mapping(resource, ..., include_internal_id=...) within
\* the iteration, with the lines the operator types should it ask
ResolvedValue(st, resource, redmine_resource_type, project_id, include_internal_id, menu_lines, value_lines) ==
    LET Returned(r) ==
            [st EXCEPT !.rvm = r.rvm,
                       !.banners = @ + (IF r.banner THEN 1 ELSE 0),
                       !.returns = @ /\ r.returns,
                       !.value = r.jira_resource_value,
                       !.type = r.resource_type_mapping]
    IN  Returned(get_resource_mapping(st.rvm, st.journals, resource,
                                      redmine_resource_type, project_id,
                                      include_internal_id,
                                      menu_lines, value_lines))

\* self._get_resource_mapping(resource, ...) within the iteration, with the
\* lines the operator types should it ask
Resolved(st, resource, redmine_resource_type, project_id, menu_lines, value_lines) ==
    ResolvedValue(st, resource, redmine_resource_type, project_id, FALSE,
                  menu_lines, value_lines)

\* A slip: the project bucket never found among the buckets
FindProject_Never(project_list, project_value_mapping) == 0

\* next(project for project in projects if project['key'] == ...): the index
\* of the first bucket with the key, 0 on StopIteration
FindProject(project_list, project_value_mapping) ==
    LET found == {i \in 1..Len(project_list) :
                     project_list[i]["key"] = project_value_mapping}
    IN  IF found = {} THEN 0 ELSE Min(found)

save_project(project, st, value_lines) ==
    LET Save(s, project_list) ==
            LET project_value_mapping == s.value
                at == FindProject(project_list, project_value_mapping)
                bucket == ("key" :> project_value_mapping) @@
                          ("issues" :> <<>>)
            IN  [s EXCEPT !.issues_export =
                              Put(@, "projects",
                                  IF at = 0 THEN Append(project_list, bucket)
                                  ELSE project_list),
                          !.project_export =
                              IF at = 0 THEN Len(project_list) + 1 ELSE at]
        Saved(s) == Save(s, Get(s.issues_export, "projects", <<>>))
    IN  Saved(Resolved(st, projects[project.id], "RedmineProject",
                       NoProjectId, <<>>, value_lines))

save_id(issue_id, st) ==
    [st EXCEPT !.issue_export = Put(@, "externalId", Str(issue_id))]

save_subject(subject, st) ==
    [st EXCEPT !.issue_export = Put(@, "summary", subject)]

save_author(author, st) ==
    LET Save(s) == [s EXCEPT !.issue_export = Put(@, "reporter", s.value)]
    IN  IF author.id \notin users
        THEN \* self._users[author.id]
             [st EXCEPT !.returns = FALSE, !.raises = "KeyError"]
        ELSE Save(Resolved(st, [login |-> author.id], "RedmineUser",
                           NoProjectId, <<>>, <<>>))

save_tracker(tracker, st) ==
    LET Save(s) == [s EXCEPT !.issue_export = Put(@, "issueType", s.value)]
    IN  Save(Resolved(st, [name |-> tracker.id], "RedmineTracker", NoProjectId,
                      <<>>, <<>>))

save_status(status, st) ==
    LET Save(s) == [s EXCEPT !.issue_export = Put(@, "status", s.value)]
    IN  Save(Resolved(st, [name |-> status.id], "RedmineIssueStatus", NoProjectId,
                      <<>>, <<>>))

save_priority(priority, st) ==
    LET Save(s) == [s EXCEPT !.issue_export = Put(@, "priority", s.value)]
    IN  Save(Resolved(st, [name |-> priority.id], "RedmineIssuePriority", NoProjectId,
                      <<>>, <<>>))

save_created_on(created_on, st) ==
    [st EXCEPT !.issue_export = Put(@, "created", isoformat(created_on))]

save_updated_on(updated_on, st) ==
    [st EXCEPT !.issue_export = Put(@, "updated", isoformat(updated_on))]

get_description_mapping(description) ==
    IF REDMINE_TEXT_FORMATTING # "none"
    THEN text2confluence_wiki(description)
    ELSE description

\* A slip: the description never written
save_description_Dropped(description, st) == st

save_description(description, st) ==
    [st EXCEPT !.issue_export =
        Put(@, "description", get_description_mapping(description))]

save_assigned_to(assigned_to, st) ==
    LET Save(s) == [s EXCEPT !.issue_export = Put(@, "assignee", s.value)]
    IN  IF ALLOW_ISSUE_ASSIGNMENT_TO_GROUPS /\ assigned_to.id \in groups
        THEN Save(Resolved(st, [name |-> assigned_to.id], "RedmineGroup",
                           NoProjectId, <<>>, <<>>))
        ELSE Save(Resolved(st, [login |-> assigned_to.id], "RedmineUser",
                           NoProjectId, <<>>, <<>>))

save_category(category, project_id, st, menu_lines, value_lines) ==
    LET Save(s) ==
            LET category_value_mapping == s.value
                category_resource_type_mapping == s.type
            IN  IF ~s.returns THEN s
                ELSE IF category_resource_type_mapping[2] =
                            "JiraProjectComponent"
                THEN [s EXCEPT
                        !.issues_export["projects"][s.project_export] =
                            SetDefaultAppend(@, "components",
                                             category_value_mapping),
                        !.issue_export =
                            SetDefaultAppend(@, "components",
                                             category_value_mapping)]
                ELSE IF category_resource_type_mapping[2] = "JiraLabel"
                THEN [s EXCEPT !.issue_export =
                        SetDefaultAppend(@, "labels", category_value_mapping)]
                ELSE s
    IN  Save(Resolved(st, [name |-> category.id], "RedmineIssueCategory",
                      project_id, menu_lines, value_lines))

save_estimated_hours(estimated_hours, st) ==
    [st EXCEPT !.issue_export =
        Put(@, "originalEstimate", duration_isoformat(estimated_hours))]

\* A resource of the instance: the tuple of its type, its ID and its
\* identifying value (a str)
Resource(type, id, name) == <<type, id, name>>

\* getattr(resource, identifying_field) of a resource or a custom field
IdentifyingValue(resource) == resource[3]

\* The resources of the instance by ID: self._projects, self._trackers,
\* self._users, self._groups, self._issue_statuses, self._issue_priorities,
\* self._issue_categories[project_id], self._versions[project_id]
ResourcesById(type, project_id) ==
    CASE type = "RedmineProject" ->
            (1 :> Resource("RedmineProject", 1, <<"p", "1">>)) @@
            (2 :> Resource("RedmineProject", 2, <<"p", "2">>)) @@
            (3 :> Resource("RedmineProject", 3, <<"p", "3">>))
      [] type = "RedmineTracker" ->
            (1 :> Resource("RedmineTracker", 1, <<"D", "e", "f", "e", "c", "t">>))
      [] type = "RedmineUser" ->
            (1 :> Resource("RedmineUser", 1, <<"a", "l", "i", "c", "e">>)) @@
            (3 :> Resource("RedmineUser", 3, <<"b", "o", "b">>)) @@
            (4 :> Resource("RedmineUser", 4, <<"c", "a", "r", "o", "l">>))
      [] type = "RedmineGroup" -> EmptyDict
      [] type = "RedmineIssueStatus" ->
            (1 :> Resource("RedmineIssueStatus", 1, <<"N", "e", "w">>)) @@
            (2 :> Resource("RedmineIssueStatus", 2,
                           <<"C", "l", "o", "s", "e", "d">>))
      [] type = "RedmineIssuePriority" ->
            (1 :> Resource("RedmineIssuePriority", 1,
                           <<"N", "o", "r", "m", "a", "l">>))
      [] type = "RedmineIssueCategory" ->
            IF project_id = 1
            THEN (1 :> Resource("RedmineIssueCategory", 1, <<"u", "i">>)) @@
                 (2 :> Resource("RedmineIssueCategory", 2, <<"d", "b">>)) @@
                 (3 :> Resource("RedmineIssueCategory", 3,
                                <<"l", "e", "g", "a", "c", "y">>))
            ELSE EmptyDict
      [] type = "RedmineVersion" ->
            IF project_id = 1
            THEN (1 :> Resource("RedmineVersion", 1, <<"v", "1">>)) @@
                 (3 :> Resource("RedmineVersion", 3, <<"v", "3">>)) @@
                 (4 :> Resource("RedmineVersion", 4, <<"v", "4">>))
            ELSE IF project_id = 2
            THEN (1 :> Resource("RedmineVersion", 1, <<"v", "1">>))
            ELSE EmptyDict

\* The keys of the dictionaries of resources in the order they were inserted
\* (the order the REST API listed the resources), which is the order
\* .items() iterates in: self._users, self._versions[project_id], and
\* self._versions itself, keyed by the project IDs
ItemsOrder(type, project_id) ==
    CASE type = "RedmineUser" -> <<4, 1, 3>>
      [] type = "RedmineVersion" ->
            IF project_id = 1 THEN <<3, 1, 4>>
            ELSE IF project_id = 2 THEN <<1>>
            ELSE <<>>
      [] type = "RedmineProject" -> <<1, 2, 3>>

\* A list of values (a str being a sequence of characters)
List(items) == <<"list", items>>

IsList(value) == Len(value) = 2 /\ value[1] = "list"

\* The truth value of a str, a list or None
Truthy(value) == value # None /\ value # <<>> /\ value # List(<<>>)

\* A str of decimal digits as a float
float(value) == <<"float", ParseInt(value)>>

\* A str as the name one character long strings spell
RECURSIVE Text(_)
Text(chars) == IF chars = <<>> THEN "" ELSE chars[1] \o Text(Tail(chars))

\* A resource as the resolver reads it: by its identifying field
AsInstance(resource) ==
    (jira_resource_type_field_mappings(resource[1])[1].redmine :>
         Text(IdentifyingValue(resource)))

\* A slip: the resources taken in the reverse order of the dictionary
PickedItems_Reversed(type, project_id, ids) ==
    LET picked == SelectSeq(ItemsOrder(type, project_id), LAMBDA k : k \in ids)
    IN  [i \in 1..Len(picked) |->
            ResourcesById(type, project_id)[picked[Len(picked) + 1 - i]]]

\* [resource for id, resource in resources.items() if id in ids]
PickedItems(type, project_id, ids) ==
    LET picked == SelectSeq(ItemsOrder(type, project_id), LAMBDA k : k \in ids)
    IN  [i \in 1..Len(picked) |-> ResourcesById(type, project_id)[picked[i]]]

\* [self._get_resource_mapping(resource, ...) for resource in resources]:
\* the iteration with the list of the values as its value
RECURSIVE get_resource_mappings(_, _, _, _, _, _)
get_resource_mappings(resources, redmine_resource_type, include_internal_id, st, value_lines, jira_value) ==
    IF ~st.returns THEN st
    ELSE IF resources = <<>> THEN [st EXCEPT !.value = List(jira_value)]
    ELSE LET Next_(r) ==
                 get_resource_mappings(Tail(resources), redmine_resource_type,
                                       include_internal_id, r, value_lines,
                                       Append(jira_value, r.value))
         IN  Next_(ResolvedValue(st, AsInstance(Head(resources)),
                                 redmine_resource_type, NoProjectId,
                                 include_internal_id, <<>>, value_lines))

\* value_lines: the lines the operator types at the value prompt, should the
\* resolver ask (the resources of a multiple-valued field may each ask)
get_custom_field_value_mapping(custom_field, project_id, include_internal_id, st, value_lines) ==
    LET custom_field_def == issue_custom_fields[custom_field.id]
        redmine_value == custom_field.value
        field_format == custom_field_def.field_format
        \* map(int, redmine_value): of a list its elements, of a str its
        \* characters
        elements == IF IsList(redmine_value) THEN redmine_value[2]
                    ELSE [i \in 1..Len(redmine_value) |-> <<redmine_value[i]>>]
        Failed(exception) ==
            [st EXCEPT !.returns = FALSE, !.raises = exception]
        Related(type, table_project_id, internal_id) ==
            IF Get(custom_field_def, "multiple", FALSE)
            THEN IF \E i \in 1..Len(elements) : ~IsInt(elements[i])
                 THEN Failed("ValueError")
                 ELSE get_resource_mappings(
                          PickedItems(type, table_project_id,
                                      {ParseInt(elements[i]) :
                                          i \in 1..Len(elements)}),
                          type, internal_id, st, value_lines, <<>>)
            ELSE IF IsList(redmine_value) THEN Failed("TypeError")
            ELSE IF ~IsInt(redmine_value) THEN Failed("ValueError")
            ELSE IF ParseInt(redmine_value)
                        \notin DOMAIN ResourcesById(type, table_project_id)
            THEN Failed("KeyError")
            ELSE ResolvedValue(
                     st,
                     AsInstance(ResourcesById(type, table_project_id)[
                                    ParseInt(redmine_value)]),
                     type, NoProjectId, internal_id, <<>>, value_lines)
    IN  IF ~Truthy(redmine_value)
        THEN [st EXCEPT !.value = redmine_value]
        ELSE CASE field_format = "bool" ->
                    [st EXCEPT !.value =
                        IF redmine_value = <<"1">> THEN <<"Y", "e", "s">>
                        ELSE IF redmine_value = <<"0">> THEN <<"N", "o">>
                        ELSE redmine_value]
               [] field_format = "date" ->
                    [st EXCEPT !.value = isoformat(redmine_value)]
               [] field_format = "float" ->
                    [st EXCEPT !.value = float(redmine_value)]
               [] field_format = "int" ->
                    [st EXCEPT !.value = ParseInt(redmine_value)]
               [] field_format \in {"text", "string"} ->
                    [st EXCEPT !.value =
                        IF REDMINE_TEXT_FORMATTING # "none"
                        THEN text2confluence_wiki(redmine_value)
                        ELSE redmine_value]
               [] field_format \in {"link", "list"} ->
                    [st EXCEPT !.value = redmine_value]
               [] field_format = "user" ->
                    Related("RedmineUser", NoProjectId, include_internal_id)
               [] field_format = "version" ->
                    Related("RedmineVersion", project_id, FALSE)
               [] OTHER ->
                    [st EXCEPT !.returns = FALSE,
                               !.raises = "NotImplementedError"]

RECURSIVE save_custom_fields(_, _, _)
save_custom_fields(custom_fields, project_id, st) ==
    IF custom_fields = <<>> \/ st.raises # "" THEN st
    ELSE LET custom_field == Head(custom_fields)
             custom_field_def == issue_custom_fields[custom_field.id]
             format_mapping ==
                 ISSUE_CUSTOM_FIELD_TYPE_MAPPINGS[custom_field_def.field_format]
             field_type == IF Get(custom_field_def, "multiple", FALSE)
                           THEN format_mapping["multiple"]
                           ELSE format_mapping["single"]
             Save(field_name, valued) ==
                 IF valued.raises # "" THEN valued
                 ELSE [valued EXCEPT !.issue_export =
                          SetDefaultAppend(@, "customFieldValues",
                                           [fieldName |-> field_name,
                                            fieldType |-> field_type,
                                            value |-> valued.value])]
             Valued(named) ==
                 IF custom_field_def.field_format
                        \notin DOMAIN ISSUE_CUSTOM_FIELD_TYPE_MAPPINGS
                 THEN [named EXCEPT !.returns = FALSE, !.raises = "KeyError"]
                 ELSE Save(named.value,
                           get_custom_field_value_mapping(custom_field,
                                                          project_id, FALSE,
                                                          named, <<>>))
         IN  save_custom_fields(
                 Tail(custom_fields), project_id,
                 Valued(Resolved(st, [name |-> custom_field.name],
                                 "RedmineCustomField", NoProjectId,
                                 <<>>, <<>>)))

hasattr(obj, name) == name \in DOMAIN obj

\* One iteration of the loop of export(): the issue saved in the document.
\* lines holds what the operator types at the value prompt of the project
\* and at the menu and the value prompt of the category.  (The issue
\* dictionary is appended to its bucket when created and filled in place:
\* the bucket holds it as filled when the iteration ends or, when a step
\* raises, as filled by the steps before it.  The issues of the
\* instance have no watchers, attachments, journals or time entries, whose
\* loops then save nothing.)
export_issue(issue, st, lines) ==
    LET project_id == issue.project.id
        Id(s) == save_id(issue.id, s)
        Subject(s) == save_subject(issue.subject, s)
        Author(s) == save_author(issue.author, s)
        Tracker(s) ==
            IF s.raises # "" THEN s ELSE save_tracker(issue.tracker, s)
        Status(s) ==
            IF s.raises # "" THEN s ELSE save_status(issue.status, s)
        Priority(s) ==
            IF s.raises # "" THEN s ELSE save_priority(issue.priority, s)
        CreatedOn(s) ==
            IF s.raises # "" THEN s ELSE save_created_on(issue.created_on, s)
        UpdatedOn(s) ==
            IF s.raises # "" THEN s ELSE save_updated_on(issue.updated_on, s)
        Description(s) ==
            IF s.raises = "" /\ hasattr(issue, "description")
            THEN save_description(issue.description, s) ELSE s
        AssignedTo(s) ==
            IF s.raises = "" /\ hasattr(issue, "assigned_to")
            THEN save_assigned_to(issue.assigned_to, s) ELSE s
        Category(s) ==
            IF s.raises = "" /\ hasattr(issue, "category")
            THEN save_category(issue.category, project_id, s,
                               lines.menu, lines.category)
            ELSE s
        EstimatedHours(s) ==
            IF s.raises = "" /\ hasattr(issue, "estimated_hours")
            THEN save_estimated_hours(issue.estimated_hours, s) ELSE s
        CustomFields(s) ==
            IF s.raises = "" /\ hasattr(issue, "custom_fields")
            THEN save_custom_fields(issue.custom_fields, project_id, s)
            ELSE s
        Appended(s) ==
            [s EXCEPT
                !.issues_export["projects"][s.project_export]["issues"] =
                    Append(@, s.issue_export)]
    IN  Appended(CustomFields(EstimatedHours(Category(AssignedTo(
            Description(UpdatedOn(CreatedOn(Priority(Status(Tracker(
                Author(Subject(Id(save_project(issue.project, st,
                                               lines.project)))))))))))))))

(***************************************************************************)
(* The export runs of the model.                                           *)
(***************************************************************************)
\* Most issues in a run of issues that differ by their project only
MaxIssues == 3

\* Most issues in a run of issues that differ by their optional fields
MaxDetailed == 1

\* An issue with the required fields only
PlainIssue(project_id) ==
    [project |-> [id |-> project_id], subject |-> <<"s">>,
     author |-> [id |-> "alice"], tracker |-> [id |-> "Defect"],
     status |-> [id |-> "New"], priority |-> [id |-> "Normal"],
     created_on |-> 1, updated_on |-> 2,
     watchers |-> <<>>, attachments |-> <<>>, journals |-> <<>>,
     time_entries |-> <<>>]

\* The optional standard fields and the values the issues of the instance
\* have for them
OptionalFields ==
    [description |-> <<"d">>, assigned_to |-> [id |-> "alice"],
     category |-> [id |-> "ui"], estimated_hours |-> 2]

\* The raw values of the custom field "Reviewed" (bool): '1', '0', None, ''
BoolValues == {<<"1">>, <<"0">>, None, <<>>}

\* The custom_fields attribute of an issue: missing (the empty set below) or
\* a list with the issue's value of "Reviewed"
CustomFieldLists ==
    {<<[id |-> 5, name |-> "Reviewed", value |-> v]>> : v \in BoolValues}

DetailedIssues ==
    {[k \in DOMAIN PlainIssue(1) \cup present \cup
            (IF cfs = {} THEN {} ELSE {"custom_fields"}) |->
         IF k \in present THEN OptionalFields[k]
         ELSE IF k = "custom_fields" THEN CHOOSE l \in cfs : TRUE
         ELSE PlainIssue(1)[k]] :
     present \in SUBSET DOMAIN OptionalFields,
     cfs \in {{}} \cup {{l} : l \in CustomFieldLists}}

RECURSIVE SeqsUpTo(_, _)
SeqsUpTo(S, n) ==
    IF n = 0 THEN {<<>>}
    ELSE SeqsUpTo(S, n - 1) \cup
         {Append(r, e) : r \in SeqsUpTo(S, n - 1), e \in S}

\* The arguments of export(): a few plain issues of any projects, or a few
\* issues of project p1 with any optional fields; the issues are numbered
\* in the order given
Runs ==
    {[i \in 1..Len(run) |-> Put(run[i], "id", i)] :
        run \in SeqsUpTo({PlainIssue(project_id) :
                             project_id \in DOMAIN projects}, MaxIssues)
                \cup SeqsUpTo(DetailedIssues, MaxDetailed)}

\* Does the resolver ask the operator for the mapping of the resource?
Asks(resource, redmine_resource_type, project_id) ==
    Search(resource_value_mappings, EXPORT_ISSUE_JOURNALS, resource,
           redmine_resource_type, project_id).jira_resource_value = None

\* The body of the loop of export() for the next issue: the issue is
\* exported, or an exception ends the run
ExportIssue ==
    /\ raised = ""
    /\ issues # <<>>
    /\ LET issue == Head(issues)
           journals == EXPORT_ISSUE_JOURNALS
           st == Iteration(journals, resource_value_mappings, banners,
                           issues_export)
           ask_project == Asks(projects[issue.project.id], "RedmineProject",
                               NoProjectId)
           ask_category ==
               /\ hasattr(issue, "category")
               /\ Asks([name |-> issue.category.id], "RedmineIssueCategory",
                       issue.project.id)
           targets ==
               Len(jira_resource_type_field_mappings("RedmineIssueCategory"))
       IN  \E project_lines \in
                  IF ask_project THEN {<<a>> : a \in Answers(journals)}
                  ELSE {<<>>},
              menu_lines \in
                  IF ask_category THEN {<<c>> : c \in Choices(targets)}
                  ELSE {<<>>},
              category_lines \in
                  IF ask_category THEN {<<a>> : a \in Answers(journals)}
                  ELSE {<<>>} :
              \E done \in {export_issue(issue, st,
                                        [project |-> project_lines,
                                         menu |-> menu_lines,
                                         category |-> category_lines])} :
                  /\ done.returns \/ done.raises # ""
                  /\ resource_value_mappings' = done.rvm
                  /\ banners' = done.banners
                  /\ issues_export' = done.issues_export
                  /\ issues' = IF done.raises # "" THEN issues
                               ELSE Tail(issues)
                  /\ exported' = IF done.raises # "" THEN exported
                                 ELSE Append(exported, issue)
                  /\ issues_export_before' = issues_export
                  /\ raised' = done.raises
                  /\ UNCHANGED <<EXPORT_ISSUE_JOURNALS, last_call, first_answer,
                                 journalVars, prompt, runVars>>

\* export(issues) called, before the first issue
InitExport ==
    /\ EXPORT_ISSUE_JOURNALS \in BOOLEAN
    /\ resource_value_mappings = EmptyDict
    /\ banners = 0
    /\ last_call = NoCall
    /\ first_answer = EmptyDict
    /\ issues \in Runs
    /\ issues_export = EmptyDict
    /\ exported = <<>>
    /\ issues_export_before = EmptyDict
    /\ raised = ""
    /\ NoJournal
    /\ prompt = NoPrompt
    /\ NoRun

NextExport == ExportIssue

SpecExport == InitExport /\ [][NextExport]_vars

(***************************************************************************)
(* Properties of the export document.                                      *)
(***************************************************************************)
\* The project buckets of the document
Buckets == Get(issues_export, "projects", <<>>)

\* The target key the project of an exported issue resolves to: what the
\* resolver answers for the project once the issue is exported
ResolvedKey(issue) ==
    get_resource_mapping(resource_value_mappings, EXPORT_ISSUE_JOURNALS,
                         projects[issue.project.id], "RedmineProject",
                         NoProjectId, FALSE, <<>>, <<>>).jira_resource_value

\* The target keys of the exported issues, in the order of the run
ResolvedKeys == [i \in 1..Len(exported) |-> ResolvedKey(exported[i])]

\* The position in the run of the first issue with the target key
FirstSeen(keys, key) == Min({i \in 1..Len(keys) : keys[i] = key})

\* The external IDs of the issues of the run with the target key, in order
RECURSIVE IssuesOfKey(_, _, _)
IssuesOfKey(keys, key, n) ==
    IF n = 0 THEN <<>>
    ELSE IF keys[n] = key
    THEN Append(IssuesOfKey(keys, key, n - 1), Str(exported[n].id))
    ELSE IssuesOfKey(keys, key, n - 1)

\* The document holds one bucket per resolved target key, in first-seen
\* order, each with the issues that resolved to its key
OneBucketPerKey ==
    LET keys == ResolvedKeys
        buckets == Buckets
    IN  /\ \A a, b \in 1..Len(buckets) :
              buckets[a]["key"] = buckets[b]["key"] => a = b
        /\ {buckets[b]["key"] : b \in 1..Len(buckets)} =
              {keys[i] : i \in 1..Len(keys)}
        /\ \A a, b \in 1..Len(buckets) :
              a < b => FirstSeen(keys, buckets[a]["key"])
                           < FirstSeen(keys, buckets[b]["key"])
        /\ \A b \in 1..Len(buckets) :
              [k \in 1..Len(buckets[b]["issues"]) |->
                  buckets[b]["issues"][k]["externalId"]]
              = IssuesOfKey(keys, buckets[b]["key"], Len(keys))

\* The project buckets of the document before the last issue was exported
BucketsBefore == Get(issues_export_before, "projects", <<>>)



\* C6: after every exported issue the document holds exactly one bucket per
\* distinct resolved target project key, in the order the keys were first
\* seen, the issues of all source projects that resolve to a key being in
\* its bucket; and exporting an issue keeps every bucket at its place, with
\* its key and with the issues it held as the first of its issues.
C6_OneBucketPerResolvedKey ==
    /\ OneBucketPerKey
    /\ Len(Buckets) >= Len(BucketsBefore)
    /\ \A b \in 1..Len(BucketsBefore) :
        /\ Buckets[b]["key"] = BucketsBefore[b]["key"]
        /\ Len(Buckets[b]["issues"]) >= Len(BucketsBefore[b]["issues"])
        /\ SubSeq(Buckets[b]["issues"], 1, Len(BucketsBefore[b]["issues"]))
               = BucketsBefore[b]["issues"]

\* C6 witness: three issues of three projects in two buckets, the first
\* bucket shared by the first and the third issue and its key the greater
C6_Witness ==
    /\ Len(exported) = 3
    /\ Cardinality({exported[i].project.id : i \in 1..3}) = 3
    /\ Len(Buckets) = 2
    /\ Buckets[1]["key"] = <<"B">> /\ Buckets[2]["key"] = <<"A">>
    /\ Len(Buckets[1]["issues"]) = 2
    /\ Buckets[1]["issues"][2]["externalId"] = <<"3">>
    /\ Len(BucketsBefore) = 2

\* The issue dictionaries of the document with the external ID
Documents(externalId) ==
    {d \in UNION {{Buckets[b]["issues"][k] : k \in 1..Len(Buckets[b]["issues"])} :
                     b \in 1..Len(Buckets)} :
        d["externalId"] = externalId}

(***************************************************************************)
(* The export runs that an exception may end.                              *)
(***************************************************************************)
\* The issues of the runs: plain issues of the projects p1 and p2, an issue
\* whose author is not among the users of the instance (as the anonymous
\* user is not) and an issue with a value of the custom field "Scan", whose
\* format has no Jira field type
FatalIssues ==
    {PlainIssue(1), PlainIssue(2),
     [PlainIssue(1) EXCEPT !.author = [id |-> "anonymous"]],
     Put(PlainIssue(1), "custom_fields",
         <<[id |-> 7, name |-> "Scan", value |-> <<"1">>]>>)}

\* export(issues) called, before the first issue
InitExportFatal ==
    /\ EXPORT_ISSUE_JOURNALS \in BOOLEAN
    /\ resource_value_mappings = EmptyDict
    /\ banners = 0
    /\ last_call = NoCall
    /\ first_answer = EmptyDict
    /\ issues \in {[i \in 1..Len(run) |-> Put(run[i], "id", i)] :
                      run \in SeqsUpTo(FatalIssues, MaxIssues)}
    /\ issues_export = EmptyDict
    /\ exported = <<>>
    /\ issues_export_before = EmptyDict
    /\ raised = ""
    /\ NoJournal
    /\ prompt = NoPrompt
    /\ NoRun

SpecExportFatal == InitExportFatal /\ [][NextExport]_vars

\* The keys every issue document has
RequiredFields ==
    {"externalId", "summary", "reporter", "issueType", "status", "priority",
     "created", "updated"}

\* C15: in every state of a run, the state left when an exception ends the
\* run included, every issue document in a project bucket has all required
\* fields.
C15_BucketsHoldCompletedDocuments ==
    \A b \in 1..Len(Buckets) :
        \A k \in 1..Len(Buckets[b]["issues"]) :
            RequiredFields \subseteq DOMAIN Buckets[b]["issues"][k]

\* C7: the document of every exported issue has the key description,
\* assignee, originalEstimate exactly when the issue has the attribute
\* description, assigned_to, estimated_hours, and the key components or
\* labels exactly when the issue has the attribute category.
C7_OptionalFieldsIffPresent ==
    \A i \in 1..Len(exported) :
        /\ Cardinality(Documents(Str(exported[i].id))) = 1
        /\ \A d \in Documents(Str(exported[i].id)) :
            /\ "description" \in DOMAIN d <=> "description" \in DOMAIN exported[i]
            /\ "assignee" \in DOMAIN d <=> "assigned_to" \in DOMAIN exported[i]
            /\ ("components" \in DOMAIN d \/ "labels" \in DOMAIN d)
                   <=> "category" \in DOMAIN exported[i]
            /\ "originalEstimate" \in DOMAIN d
                   <=> "estimated_hours" \in DOMAIN exported[i]

\* C7 witness: an exported issue with a description, a category and
\* estimated hours and without assigned_to, its category saved as a label
C7_Witness ==
    \E i \in 1..Len(exported) :
        /\ DOMAIN OptionalFields \cap DOMAIN exported[i] =
               {"description", "category", "estimated_hours"}
        /\ \E d \in Documents(Str(exported[i].id)) :
               "labels" \in DOMAIN d /\ "assignee" \notin DOMAIN d

\* The entries of the issue's document for the custom field "Reviewed",
\* which the configuration maps to the Jira custom field "Rev"
ReviewedEntries(issue) ==
    UNION {{Get(d, "customFieldValues", <<>>)[k] :
               k \in 1..Len(Get(d, "customFieldValues", <<>>))} :
           d \in Documents(Str(issue.id))}

\* The raw value of the custom field "Reviewed" of an issue that has it
ReviewedValue(issue) == issue.custom_fields[1].value

\* C8 as stated: for the bool custom field, raw value '1' gives an entry of
\* value "Yes", raw value '0' an entry of value "No", and with raw value
\* None, or without the custom field, the document has no entry for it.
C8_BoolValueOrNoEntry ==
    \A i \in 1..Len(exported) :
        LET issue == exported[i]
            entries == ReviewedEntries(issue)
        IN  IF "custom_fields" \notin DOMAIN issue THEN entries = {}
            ELSE /\ ReviewedValue(issue) = <<"1">> =>
                        {e.value : e \in entries} = {<<"Y", "e", "s">>}
                 /\ ReviewedValue(issue) = <<"0">> =>
                        {e.value : e \in entries} = {<<"N", "o">>}
                 /\ ReviewedValue(issue) = None => entries = {}

(***************************************************************************)
(* IssuesExporter._coalesce_journal_details: the journal normalizer.       *)
(*                                                                         *)
(* Here a resource is the tuple of its type, ID and identifying value, the *)
(* custom field of an issue the tuple of "custom_field", its ID, its name  *)
(* and its value, and a journal detail a dictionary whose old_value and    *)
(* new_value are a str, None, a resource or a custom field.                *)
(***************************************************************************)
\* models.RedmineIssue.get_related_fields() with the related resource types
RelatedFields ==
    [project |-> "RedmineProject", tracker |-> "RedmineTracker",
     status |-> "RedmineIssueStatus", priority |-> "RedmineIssuePriority",
     author |-> "RedmineUser", assigned_to |-> "RedmineUser",
     category |-> "RedmineIssueCategory", fixed_version |-> "RedmineVersion"]

\* property_name[:-len('_id')] of the attribute names of the model
WithoutId ==
    [project_id |-> "project", tracker_id |-> "tracker",
     status_id |-> "status", priority_id |-> "priority",
     author_id |-> "author", assigned_to_id |-> "assigned_to",
     category_id |-> "category", fixed_version_id |-> "fixed_version",
     subject |-> "subj", description |-> "descript",
     done_ratio |-> "done_ra"]

\* int(property_name) of the custom field property names of the model
CustomFieldId ==
    ("5" :> 5) @@ ("6" :> 6) @@ ("12" :> 12) @@ ("13" :> 13) @@ ("14" :> 14)

\* The outcome of a call: the value returned, or the exception raised
Returns(value) == [raises |-> "", ret |-> value]

Raises(exception) == [raises |-> exception, ret |-> None]

\* _lookup_journal_detail_property_value.  int() of None raises TypeError,
\* which the method does not catch; so do dict.get() of a list and "in" of
\* an int.
lookup_journal_detail_property_value(property_name, property_type, raw, project_id) ==
    IF raw = None THEN Raises("TypeError")
    ELSE IF IsList(raw)
    THEN IF \E i \in 1..Len(raw[2]) :
                ~IsInt(raw[2][i]) \/ ParseInt(raw[2][i]) = 0
         THEN \* not all(property_value)
              Returns(raw)
         ELSE LET property_value == {ParseInt(raw[2][i]) : i \in 1..Len(raw[2])}
                  custom_field_def ==
                      issue_custom_fields[CustomFieldId[property_name]]
                  \* [v for k, v in resources_dict.items()
                  \*  if k in property_value], by key
                  Picked(type) ==
                      SelectSeq(ItemsOrder(type, NoProjectId),
                                LAMBDA k : k \in property_value)
              IN  CASE property_type = "attr" ->
                         IF property_name \in DOMAIN WithoutId
                            /\ WithoutId[property_name] \in DOMAIN RelatedFields
                         THEN \* dict.get(list): unhashable type
                              Raises("TypeError")
                         ELSE Returns(raw)
                    [] property_type = "cf" ->
                         IF custom_field_def.field_format \notin {"user", "version"}
                         THEN Returns(raw)
                         ELSE IF ~Get(custom_field_def, "multiple", FALSE)
                         THEN Raises("TypeError")
                         ELSE IF custom_field_def.field_format = "user"
                         THEN Returns(List(
                                  [i \in 1..Len(Picked("RedmineUser")) |->
                                      ResourcesById("RedmineUser", NoProjectId)[
                                          Picked("RedmineUser")[i]]]))
                         ELSE \* self._versions is keyed by project ID
                              Returns(List(
                                  [i \in 1..Len(Picked("RedmineProject")) |->
                                      <<"dict", "RedmineVersion",
                                        Picked("RedmineProject")[i]>>]))
                    [] OTHER -> Raises("NotImplementedError")
    ELSE IF ~IsInt(raw) THEN Returns(raw)
    ELSE LET property_value == ParseInt(raw)
             Lookup(type) ==
                 Get(ResourcesById(type, project_id), property_value, None)
         IN  CASE property_type = "attr" ->
                    CASE property_name = "project_id" ->
                            Returns(Lookup("RedmineProject"))
                      [] property_name = "tracker_id" ->
                            Returns(Lookup("RedmineTracker"))
                      [] property_name = "author_id" ->
                            Returns(Lookup("RedmineUser"))
                      [] property_name = "assigned_to_id" ->
                            IF Lookup("RedmineUser") = None
                               /\ ALLOW_ISSUE_ASSIGNMENT_TO_GROUPS
                            THEN Returns(Lookup("RedmineGroup"))
                            ELSE Returns(Lookup("RedmineUser"))
                      [] property_name = "status_id" ->
                            Returns(Lookup("RedmineIssueStatus"))
                      [] property_name = "priority_id" ->
                            Returns(Lookup("RedmineIssuePriority"))
                      [] property_name = "category_id" ->
                            Returns(Lookup("RedmineIssueCategory"))
                      [] property_name = "fixed_version_id" ->
                            Returns(Lookup("RedmineVersion"))
                      [] OTHER -> Returns(raw)
               [] property_type = "cf" ->
                    LET custom_field_def ==
                            issue_custom_fields[CustomFieldId[property_name]]
                    IN  IF custom_field_def.field_format \notin {"user", "version"}
                        THEN Returns(raw)
                        ELSE IF Get(custom_field_def, "multiple", FALSE)
                        THEN \* "k in property_value", property_value an int
                             Raises("TypeError")
                        ELSE IF custom_field_def.field_format = "user"
                        THEN Returns(Lookup("RedmineUser"))
                        ELSE \* self._versions is keyed by project ID
                             IF property_value \in DOMAIN projects
                             THEN Returns(<<"dict", "RedmineVersion",
                                            property_value>>)
                             ELSE Returns(None)
               [] OTHER -> Raises("NotImplementedError")

\* A slip: the presence of the key taken for the presence of a value
TruthyAt_KeyOnly(jd, key) == key \in DOMAIN jd

\* bool(jd.get(key, None))
TruthyAt(jd, key) == key \in DOMAIN jd /\ Truthy(jd[key])

\* A slip: only a replacement counted as a valid operation
is_journal_detail_valid_ReplacementOnly(jd) ==
    /\ "old_value" \in DOMAIN jd /\ jd["old_value"] # None
    /\ "new_value" \in DOMAIN jd /\ jd["new_value"] # None

is_journal_detail_valid(jd) ==
    \/ "old_value" \notin DOMAIN jd /\ TruthyAt(jd, "new_value")
    \/ "new_value" \notin DOMAIN jd /\ TruthyAt(jd, "old_value")
    \/ /\ "old_value" \in DOMAIN jd /\ jd["old_value"] # None
       /\ "new_value" \in DOMAIN jd /\ jd["new_value"] # None

\* A slip: a detail appended whatever its values
differs_Always(jd) == TRUE

\* The test under which a valid detail is appended: a value set, a value
\* unset, or a replacement by a different value
differs(jd) ==
    \/ "old_value" \notin DOMAIN jd
    \/ "new_value" \notin DOMAIN jd
    \/ jd["old_value"] # jd["new_value"]

\* The values of a journal detail looked up, old_value then new_value
LookedUp(property_name, journal_detail, project_id) ==
    LET Looked(value_type) ==
            lookup_journal_detail_property_value(
                property_name, journal_detail["property"],
                journal_detail[value_type], project_id)
        Both(old, new) ==
            [raises |-> IF old.raises # "" THEN old.raises ELSE new.raises,
             ret |-> [k \in DOMAIN journal_detail |->
                         IF k = "old_value" THEN old.ret
                         ELSE IF k = "new_value" THEN new.ret
                         ELSE journal_detail[k]]]
        ThenNew(old) ==
            Both(old, IF "new_value" \in DOMAIN journal_detail
                         /\ old.raises = ""
                      THEN Looked("new_value") ELSE Returns(None))
    IN  ThenNew(IF "old_value" \in DOMAIN journal_detail
                THEN Looked("old_value") ELSE Returns(None))

\* The custom fields of the issue with the ID
CustomFieldsWithId(issue, id) ==
    SelectSeq(issue["custom_fields"], LAMBDA cf : cf[2] = id)

\* The replacement of the last new value of a property when it refers to no
\* existing resource (the detail is the newest one, its values looked up):
\* the detail as left, or the exception raised
Repaired(issue, property_name, journal_detail) ==
    IF journal_detail["property"] = "attr"
    THEN IF property_name \in DOMAIN WithoutId
            /\ WithoutId[property_name] \in DOMAIN RelatedFields
         THEN LET field_name == WithoutId[property_name]
                  current_value == Get(issue, field_name, None)
              IN  IF current_value = None
                  THEN \* getattr(None, identifying_field)
                       Raises("AttributeError")
                  ELSE IF IdentifyingValue(current_value) # None
                  THEN Returns([journal_detail EXCEPT
                                    !["new_value"] = current_value])
                  ELSE Returns(journal_detail)
         ELSE LET current_value == Get(issue, property_name, None)
              IN  IF current_value # None
                  THEN Returns([journal_detail EXCEPT
                                    !["new_value"] = current_value])
                  ELSE Returns(journal_detail)
    ELSE IF journal_detail["property"] = "cf"
    THEN LET found == CustomFieldsWithId(issue, CustomFieldId[property_name])
         IN  IF found = <<>>
             THEN \* StopIteration suppressed: both values stay None
                  Returns(journal_detail)
             ELSE IF IdentifyingValue(found[1]) # None
             THEN Returns([journal_detail EXCEPT !["new_value"] = found[1]])
             ELSE Returns(journal_detail)
    ELSE Returns(journal_detail)

\* A slip: the new journal detail never compensated
compensate_Never(running, current) == running

\* "If in the new journal detail a value has been replaced, but the old
\* value is not valid, if in the current journal detail the old value is
\* valid, we compensate the new journal detail with the old value of the
\* current one"
compensate(running, current) ==
    IF /\ "old_value" \in DOMAIN running
       /\ running["old_value"] = None
       /\ "old_value" \in DOMAIN current
       /\ current["old_value"] # None
    THEN [running EXCEPT !["old_value"] = current["old_value"]]
    ELSE running

\* The state of the loop over the details of a property: the list built,
\* new_journal_detail (waiting: it is not None) and the exception raised
LoopStart ==
    [coalesced |-> <<>>, waiting |-> FALSE, new_journal_detail |-> <<>>,
     raises |-> ""]

\* One iteration of the loop over the reversed details of a property
CoalesceStep(issue, property_name, journal_detail, i, st, project_id) ==
    LET Emitted(new_journal_detail) ==
            IF is_journal_detail_valid(new_journal_detail)
            THEN [st EXCEPT
                     !.coalesced = IF differs(new_journal_detail)
                                   THEN Append(@, new_journal_detail) ELSE @,
                     !.waiting = FALSE,
                     !.new_journal_detail = <<>>]
            ELSE [st EXCEPT !.waiting = TRUE,
                            !.new_journal_detail = new_journal_detail]
        Compensated(running, current) ==
            Emitted(compensate(running, current))
        \* new_journal_detail is the current detail itself when none waits
        Merged(current) ==
            Compensated(IF st.waiting THEN st.new_journal_detail ELSE current,
                        current)
        Checked(repaired) ==
            IF repaired.raises # ""
            THEN [st EXCEPT !.raises = repaired.raises]
            ELSE Merged(repaired.ret)
        Repairing(looked) ==
            IF looked.raises # "" THEN [st EXCEPT !.raises = looked.raises]
            ELSE Checked(IF i = 0 /\ "new_value" \in DOMAIN looked.ret
                                  /\ looked.ret["new_value"] = None
                         THEN Repaired(issue, property_name, looked.ret)
                         ELSE looked)
    IN  IF st.raises # "" THEN st
        ELSE Repairing(LookedUp(property_name, journal_detail, project_id))

\* The loop over reversed(journal_detail_list), from its i-th detail on
RECURSIVE CoalesceLoop(_, _, _, _, _, _)
CoalesceLoop(issue, property_name, journal_detail_list, i, st, project_id) ==
    IF i >= Len(journal_detail_list) THEN st
    ELSE CoalesceLoop(
             issue, property_name, journal_detail_list, i + 1,
             CoalesceStep(issue, property_name,
                          journal_detail_list[Len(journal_detail_list) - i],
                          i, st, project_id),
             project_id)

\* The coalesced list of one property, or the exception raised
CoalesceProperty(issue, property_name, journal_detail_list, project_id) ==
    LET Finished(st) ==
            IF st.raises = "" /\ st.waiting
               /\ is_journal_detail_valid(st.new_journal_detail)
            THEN [st EXCEPT !.coalesced = Append(@, st.new_journal_detail)]
            ELSE st
    IN  Finished(CoalesceLoop(issue, property_name, journal_detail_list, 0,
                              LoopStart, project_id))

\* _coalesce_journal_details: the dictionary as the method leaves it
\* (every property coalesced, the properties with an empty list pruned), or
\* the first exception a property raises (properties in dictionary order)
coalesce_journal_details(issue, details, project_id) ==
    LET Pruned(by_property) ==
            LET raising == {property_name \in DOMAIN details :
                               by_property[property_name].raises # ""}
                kept == {property_name \in DOMAIN details :
                            by_property[property_name].coalesced # <<>>}
            IN  IF raising # {}
                THEN [done |-> TRUE,
                      raises |-> by_property[CHOOSE property_name \in raising :
                                                TRUE].raises,
                      journal_details |-> <<>>]
                ELSE [done |-> TRUE, raises |-> "",
                      journal_details |->
                          [property_name \in kept |->
                              by_property[property_name].coalesced]]
    IN  Pruned([property_name \in DOMAIN details |->
                   CoalesceProperty(issue, property_name,
                                    details[property_name], project_id)])

(***************************************************************************)
(* The calls of the journal normalizer of the model: the journal of one    *)
(* property of an issue of project p1.                                     *)
(***************************************************************************)
\* Most journal details of the property
MaxEntries == 3

\* The properties with a journal: two attributes and the custom field 6
\* ("Owner", a user), each with the property type of its details
JournalProperties ==
    [category_id |-> "attr", subject |-> "attr"] @@ ("6" :> "cf")

\* The raw values of a journal detail: the IDs 1 and 2 and the ID 9, which
\* no resource has
RawValues == {<<"1">>, <<"2">>, <<"9">>}

\* The journal details a journal entry can hold for a property: an old
\* value, a new value or both
JournalDetails(property_type) ==
    {[k \in {"property"} \cup DOMAIN values |->
         IF k = "property" THEN property_type ELSE values[k]] :
     values \in UNION {[keys -> RawValues] :
                          keys \in SUBSET {"old_value", "new_value"} \ {{}}}}

\* The details of a property as _collect_journal_details leaves them: in
\* chronological order, each with the author and the time of its entry
CollectedDetails(property_type) ==
    {[i \in 1..Len(list) |->
         ("user" :> Resource("RedmineUser", 1, <<"a", "l", "i", "c", "e">>)) @@
         ("created_on" :> i) @@ list[i]] :
     list \in SeqsUpTo(JournalDetails(property_type), MaxEntries) \ {<<>>}}

\* The issue: of project p1, in status New, its custom field Owner set, with
\* or without a category
JournalIssues(property_name) ==
    LET base ==
            [project |-> Resource("RedmineProject", 1, <<"p", "1">>),
             status |-> Resource("RedmineIssueStatus", 1, <<"N", "e", "w">>),
             subject |-> <<"s">>,
             custom_fields |->
                 << <<"custom_field", 6, <<"O", "w", "n", "e", "r">>, <<"1">>>> >>]
        categorized ==
            Put(base, "category",
                Resource("RedmineIssueCategory", 1, <<"u", "i">>))
    IN  IF property_name = "category_id" THEN {base, categorized}
        ELSE {categorized}

\* _coalesce_journal_details(issue, journal_details, issue.project.id)
CoalesceJournalDetails ==
    /\ ~normalized.done
    /\ normalized' = coalesce_journal_details(journal_issue, journal_details,
                                              journal_issue["project"][2])
    /\ UNCHANGED <<EXPORT_ISSUE_JOURNALS, resource_value_mappings, banners,
                   last_call, first_answer, exportVars, journal_issue,
                   journal_details, prompt, runVars>>

\* _save_journals about to normalize the collected details of an issue
InitCoalesce ==
    /\ EXPORT_ISSUE_JOURNALS = TRUE
    /\ resource_value_mappings = EmptyDict
    /\ banners = 0
    /\ last_call = NoCall
    /\ first_answer = EmptyDict
    /\ issues = <<>>
    /\ issues_export = EmptyDict
    /\ exported = <<>>
    /\ issues_export_before = EmptyDict
    /\ raised = ""
    /\ \E property_name \in DOMAIN JournalProperties :
        /\ journal_issue \in JournalIssues(property_name)
        /\ \E list \in CollectedDetails(JournalProperties[property_name]) :
              journal_details = (property_name :> list)
    /\ normalized = [done |-> FALSE]
    /\ prompt = NoPrompt
    /\ NoRun

NextCoalesce == CoalesceJournalDetails

SpecCoalesce == InitCoalesce /\ [][NextCoalesce]_vars

(***************************************************************************)
(* Claims about the journal normalizer                                     *)
(***************************************************************************)
\* The property of the journal, and its details as collected
JournalProperty == CHOOSE property_name \in DOMAIN journal_details : TRUE

Collected == journal_details[JournalProperty]

\* The i-th collected detail with its values looked up
ResolvedDetail(i) ==
    LookedUp(JournalProperty, Collected[i], journal_issue["project"][2]).ret

\* The coalesced list of the property (newest item first), empty when the
\* property is pruned or the normalizer raised
Coalesced ==
    IF normalized.done /\ JournalProperty \in DOMAIN normalized.journal_details
    THEN normalized.journal_details[JournalProperty]
    ELSE <<>>

\* The coalesced items that carry the time of one of the entries
ItemsOf(entries) ==
    SelectSeq(Coalesced, LAMBDA item : item["created_on"] \in entries)

\* The value the issue holds now for the property, as a looked up value
LiveValue ==
    IF JournalProperties[JournalProperty] = "cf"
    THEN LET found == CustomFieldsWithId(journal_issue,
                                         CustomFieldId[JournalProperty])
         IN  IF found = <<>> THEN None
             ELSE lookup_journal_detail_property_value(
                      JournalProperty, "cf", found[1][4],
                      journal_issue["project"][2]).ret
    ELSE IF WithoutId[JournalProperty] \in DOMAIN RelatedFields
    THEN Get(journal_issue, WithoutId[JournalProperty], None)
    ELSE Get(journal_issue, JournalProperty, None)

\* The chronologically last entry has a new value that resolves to nothing
LastNewValueDangling ==
    LET last == ResolvedDetail(Len(Collected))
    IN  "new_value" \in DOMAIN last /\ last["new_value"] = None

\* C9: when the chronologically last entry of a property has a new value
\* that resolves to nothing, the normalizer completes and the coalesced item
\* of that entry has the live value of the issue as its new value.
C9_DanglingLastValueRepaired ==
    normalized.done /\ LastNewValueDangling =>
        /\ normalized.raises = ""
        /\ \A i \in 1..Len(Coalesced) :
              Coalesced[i]["created_on"] = Len(Collected) =>
                  /\ "new_value" \in DOMAIN Coalesced[i]
                  /\ Coalesced[i]["new_value"] = LiveValue

\* Both values of a detail are present and refer to something
AllValuesValid(jd) ==
    /\ "old_value" \in DOMAIN jd /\ jd["old_value"] # None
    /\ "new_value" \in DOMAIN jd /\ jd["new_value"] # None

\* The entries k and k + 1 form a round trip: A to B, then B back to A
RoundTrip(k) ==
    /\ AllValuesValid(ResolvedDetail(k))
    /\ AllValuesValid(ResolvedDetail(k + 1))
    /\ ResolvedDetail(k)["new_value"] = ResolvedDetail(k + 1)["old_value"]
    /\ ResolvedDetail(k + 1)["new_value"] = ResolvedDetail(k)["old_value"]

\* No entry later than the round trip has an invalid value
LaterEntriesValid(k) ==
    \A j \in (k + 2)..Len(Collected) :
        is_journal_detail_valid(ResolvedDetail(j))

\* The item is the entry itself, its values looked up
IsEntry(item, k) ==
    /\ item["created_on"] = k
    /\ AllValuesValid(item)
    /\ item["old_value"] = ResolvedDetail(k)["old_value"]
    /\ item["new_value"] = ResolvedDetail(k)["new_value"]

SingleSet ==
    /\ Len(Collected) = 1
    /\ "old_value" \notin DOMAIN Collected[1]
    /\ "new_value" \in DOMAIN Collected[1]
    /\ Truthy(ResolvedDetail(1)["new_value"])

\* C11: a journal of a single entry with no old value and a valid new value
\* yields exactly one item, a set (no old value, the resolved new value),
\* with the author and the time of that entry.
C11_SingleSetYieldsOneSetItem ==
    normalized.done /\ SingleSet =>
        /\ normalized.raises = ""
        /\ Len(Coalesced) = 1
        /\ "old_value" \notin DOMAIN Coalesced[1]
        /\ "new_value" \in DOMAIN Coalesced[1]
        /\ Coalesced[1]["new_value"] = ResolvedDetail(1)["new_value"]
        /\ Coalesced[1]["user"] = Collected[1]["user"]
        /\ Coalesced[1]["created_on"] = Collected[1]["created_on"]

\* A category set by the only entry of its journal, normalized
C11_Witness ==
    /\ normalized.done
    /\ SingleSet
    /\ JournalProperty = "category_id"
    /\ Len(Coalesced) = 1

(***************************************************************************)
(* The interactive fallback of _get_resource_mapping line by line: a call  *)
(* that finds no mapping shows its prompts and click.prompt reads the      *)
(* lines of the operator one at a time.                                    *)
(***************************************************************************)
\* The calls made: the categories of project p1 (under the project), the
\* version v1 (under no project) and the user alice
PromptCalls ==
    {[resource |-> [name |-> name],
      redmine_resource_type |-> "RedmineIssueCategory", project_id |-> 1] :
        name \in issue_categories[1]} \cup
    {[resource |-> [name |-> "v1"], redmine_resource_type |-> "RedmineVersion",
      project_id |-> NoProjectId],
     [resource |-> [login |-> "alice"], redmine_resource_type |-> "RedmineUser",
      project_id |-> NoProjectId]}

\* The lines click.IntRange(1, n) rejects, among those the operator types
BadMenuLines(n) == {<<"x">>, <<"0">>, <<Digits[n + 2]>>}

\* The lines the value prompt rejects, among those the operator types: the
\* empty line and, with parse_id_unique_name, a line without or with two ':'
BadValueLines(journals) ==
    IF journals THEN {<<>>, <<"A">>, <<"7", ":", "A", ":", "B">>} ELSE {<<>>}

\* The method with the lines typed so far at its two prompts
Answered(call, menu_lines, value_lines) ==
    get_resource_mapping(resource_value_mappings, EXPORT_ISSUE_JOURNALS,
                         call.resource, call.redmine_resource_type,
                         call.project_id, FALSE, menu_lines, value_lines)

\* The menu prompt has returned a choice
MenuAnswered(call, menu_lines) ==
    LET n == Len(jira_resource_type_field_mappings(call.redmine_resource_type))
    IN  Prompt([i \in 1..Len(menu_lines) |->
                   IntRangeAccepts(menu_lines[i], n)]) # 0

\* A call of _get_resource_mapping up to its first prompt: it returns a
\* mapping found, or echoes the banner (with an empty dynamic table) and
\* shows the menu or the value prompt
CallResolver ==
    /\ prompt.waiting = "none"
    /\ \E call \in PromptCalls :
          \E r \in {Answered(call, <<>>, <<>>)} :
              /\ prompt' = [waiting |-> IF r.returns THEN "none"
                                        ELSE IF r.menu THEN "menu"
                                        ELSE "value",
                            typed |-> FALSE, returned |-> r.returns,
                            call |-> call, menu_lines |-> <<>>,
                            value_lines |-> <<>>,
                            value |-> r.jira_resource_value]
              /\ banners' = banners + (IF r.banner THEN 1 ELSE 0)
    /\ UNCHANGED <<EXPORT_ISSUE_JOURNALS, resource_value_mappings, last_call,
                   first_answer, exportVars, journalVars, runVars>>

\* click.prompt given a line at the prompt shown
Typed(line) ==
    LET call == prompt.call
        at_menu == prompt.waiting = "menu"
    IN  \E menu_lines \in {IF at_menu THEN Append(prompt.menu_lines, line)
                           ELSE prompt.menu_lines},
           value_lines \in {IF at_menu THEN prompt.value_lines
                            ELSE Append(prompt.value_lines, line)} :
           \E r \in {Answered(call, menu_lines, value_lines)} :
              /\ prompt' =
                   [waiting |-> IF r.returns THEN "none"
                                ELSE IF r.menu
                                        /\ ~MenuAnswered(call, menu_lines)
                                THEN "menu" ELSE "value",
                    typed |-> TRUE, returned |-> r.returns,
                    call |-> call, menu_lines |-> menu_lines,
                    value_lines |-> value_lines,
                    value |-> r.jira_resource_value,
                    line |-> line, was |-> prompt.waiting,
                    before |-> resource_value_mappings]
              /\ resource_value_mappings' = r.rvm

\* The operator types a line at the prompt shown: click.prompt shows the
\* same prompt again when the line is rejected; the menu accepted is
\* followed by the value prompt, the value accepted is recorded in the
\* dynamic table and returned
TypeLine ==
    /\ prompt.waiting \in {"menu", "value"}
    /\ LET call == prompt.call
           journals == EXPORT_ISSUE_JOURNALS
           n == Len(jira_resource_type_field_mappings(
                        call.redmine_resource_type))
           at_menu == prompt.waiting = "menu"
           shown == IF at_menu THEN Len(prompt.menu_lines)
                    ELSE Len(prompt.value_lines)
           good == IF at_menu THEN Choices(n) ELSE Answers(journals)
           bad == IF shown >= MaxRejected THEN {}
                  ELSE IF at_menu THEN BadMenuLines(n)
                  ELSE BadValueLines(journals)
       IN  \E line \in good \cup bad : Typed(line)
    /\ UNCHANGED <<EXPORT_ISSUE_JOURNALS, banners, last_call, first_answer,
                   exportVars, journalVars, runVars>>

\* export() before the first issue, the resolver called for one resource
\* after the other
InitPrompt ==
    /\ EXPORT_ISSUE_JOURNALS \in BOOLEAN
    /\ resource_value_mappings = EmptyDict
    /\ banners = 0
    /\ last_call = NoCall
    /\ first_answer = EmptyDict
    /\ issues = <<>>
    /\ issues_export = EmptyDict
    /\ exported = <<>>
    /\ issues_export_before = EmptyDict
    /\ raised = ""
    /\ NoJournal
    /\ prompt = NoPrompt
    /\ NoRun

NextPrompt == CallResolver \/ TypeLine

SpecPrompt == InitPrompt /\ [][NextPrompt]_vars

(***************************************************************************)
(* The resolver with an operator who types lines of any form at the value  *)
(* prompt while journals are exported.                                     *)
(***************************************************************************)
\* The lines typed at the value prompt: the form ID:name, a name alone, an
\* ID that is no number, an empty ID, an empty name
AnyValueLines ==
    {<<"7", ":", "A">>, <<"A">>, <<"x", ":", "A">>, <<":", "A">>, <<"7", ":">>}

\* The operator types a line at the prompt shown
TypeAnyLine ==
    /\ prompt.waiting \in {"menu", "value"}
    /\ \E line \in IF prompt.waiting = "menu"
                   THEN Choices(Len(jira_resource_type_field_mappings(
                                        prompt.call.redmine_resource_type)))
                   ELSE IF Len(prompt.value_lines) >= MaxRejected
                   THEN {l \in AnyValueLines : ValueAccepted(TRUE, l)}
                   ELSE AnyValueLines :
          Typed(line)
    /\ UNCHANGED <<EXPORT_ISSUE_JOURNALS, banners, last_call, first_answer,
                   exportVars, journalVars, runVars>>

InitPromptAny ==
    /\ EXPORT_ISSUE_JOURNALS = TRUE
    /\ resource_value_mappings = EmptyDict
    /\ banners = 0
    /\ last_call = NoCall
    /\ first_answer = EmptyDict
    /\ issues = <<>>
    /\ issues_export = EmptyDict
    /\ exported = <<>>
    /\ issues_export_before = EmptyDict
    /\ raised = ""
    /\ NoJournal
    /\ prompt = NoPrompt
    /\ NoRun

NextPromptAny == CallResolver \/ TypeAnyLine

SpecPromptAny == InitPromptAny /\ [][NextPromptAny]_vars

\* Is the value a pair of an internal numeric ID and an identifying string?
IsIdNamePair(value) ==
    /\ Len(value) = Len(ResourceKeyFields)
    /\ IsInt(value[1])
    /\ Len(value[2]) > 0

\* Does the line consist of a numeric ID, one separator and a name?
IsIdNameLine(line) == IsIdNamePair(Split(line, ":"))

\* C26: while journals are exported, every value of the dynamic table is a
\* pair of an internal numeric ID and an identifying string, and a line typed
\* at the value prompt that is not a numeric ID, one separator and a name is
\* rejected: the prompt waits again and the table is as before.
C26_StoredValuesAreIdNamePairs ==
    EXPORT_ISSUE_JOURNALS =>
        /\ \A key \in DOMAIN resource_value_mappings :
              IsIdNamePair(resource_value_mappings[key])
        /\ (prompt.typed /\ prompt.was = "value"
                /\ ~IsIdNameLine(prompt.line)) =>
              /\ ~prompt.returned
              /\ prompt.waiting = "value"
              /\ resource_value_mappings = prompt.before

\* The line is the decimal form of one of the n choices of the menu
IsMenuChoice(line, n) == \E c \in 1..n : line = <<Digits[c + 1]>>

\* The line has the compound form ID:name: exactly one ':'
IsCompound(line) == Cardinality({i \in 1..Len(line) : line[i] = ":"}) = 1

\* The last line typed is a valid answer to the prompt it was typed at
ValidAnswer ==
    IF prompt.was = "menu"
    THEN IsMenuChoice(prompt.line,
                      Len(jira_resource_type_field_mappings(
                              prompt.call.redmine_resource_type)))
    ELSE Len(prompt.line) > 0
         /\ (EXPORT_ISSUE_JOURNALS => IsCompound(prompt.line))

\* C12: after an invalid answer the same prompt waits again and the dynamic
\* table is as before; a valid menu choice leads to the value prompt with
\* the table as before; the call returns exactly on a valid value, which
\* is then the only mapping added.
C12_InvalidAnswerAsksAgain ==
    prompt.typed =>
        /\ ~ValidAnswer =>
              /\ prompt.waiting = prompt.was
              /\ ~prompt.returned
              /\ resource_value_mappings = prompt.before
        /\ ValidAnswer /\ prompt.was = "menu" =>
              /\ prompt.waiting = "value"
              /\ ~prompt.returned
              /\ resource_value_mappings = prompt.before
        /\ ValidAnswer /\ prompt.was = "value" =>
              /\ prompt.waiting = "none"
              /\ prompt.returned
              /\ \E key \in DOMAIN resource_value_mappings \ DOMAIN prompt.before :
                    resource_value_mappings =
                        (key :> resource_value_mappings[key]) @@ prompt.before
        /\ prompt.returned => ValidAnswer /\ prompt.was = "value"

\* A call that returned after a rejected menu choice and a rejected value
C12_Witness ==
    /\ prompt.typed
    /\ prompt.returned
    /\ EXPORT_ISSUE_JOURNALS
    /\ Len(prompt.menu_lines) = 2
    /\ Len(prompt.value_lines) = 2
    /\ prompt.value_lines[1] = <<"A">>

(***************************************************************************)
(* A run from the construction of the exporter on: IssuesExporter.__init__ *)
(* with its optional _validate_config, then the lookups that               *)
(* _get_resource_mapping makes in static tables which the final user may   *)
(* have written in any form.                                               *)
(***************************************************************************)
\* The forms the final user writes a static value mapping in: the pair
\* (ID, name), the name alone, a 1-tuple and a 3-tuple
EntryForms == {"pair", "name", "single", "triple"}

\* A static value mapping with its Python type: <<"tuple", items>> or
\* <<"str", characters>>
Entry(form, id, name) ==
    CASE form = "pair" -> <<"tuple", <<id, name>>>>
      [] form = "name" -> <<"str", name>>
      [] form = "single" -> <<"tuple", <<name>>>>
      [] form = "triple" -> <<"tuple", <<id, name, name>>>>

\* The settings module of the run: alice has a static user mapping, the
\* category "legacy" of project p1 a static label mapping and the category
\* "db" of project p1 a static component mapping, each in the form given
UserSettings(forms) ==
    ("REDMINE_USER_JIRA_USER_MAPPINGS" :>
        ("alice" :> Entry(forms.user, <<"1">>, <<"a", "l">>))) @@
    ("REDMINE_GROUP_JIRA_USER_MAPPINGS" :> EmptyDict) @@
    ("REDMINE_PROJECT_JIRA_PROJECT_MAPPINGS" :> EmptyDict) @@
    ("REDMINE_ISSUE_CATEGORY_JIRA_COMPONENT_MAPPINGS" :>
        ("p1" :> ("db" :> Entry(forms.component, <<"8">>, <<"C">>)))) @@
    ("REDMINE_ISSUE_CATEGORY_JIRA_LABEL_MAPPINGS" :>
        ("p1" :> ("legacy" :> Entry(forms.label, <<"9">>, <<"L">>)))) @@
    ("REDMINE_VERSION_JIRA_VERSION_MAPPINGS" :> EmptyDict)

\* isinstance(v, tuple) and len(v) == 2
IsPair(v) == v[1] = "tuple" /\ Len(v[2]) = 2

\* dict.values()
DictValues(d) == {d[k] : k \in DOMAIN d}

\* _validate_config: does it raise the ClickException?
validate_config(journals, settings) ==
    /\ journals
    /\ \E i \in DOMAIN ALL_RESOURCE_TYPE_MAPPINGS :
          \E rtp \in {ALL_RESOURCE_TYPE_MAPPINGS[i]} :
             \E static_rvp \in {Get(settings, SettingNames[rtp], EmptyDict)} :
                IF \E j \in DOMAIN RESOURCE_TYPE_MAPPINGS_BY_PROJECT :
                      RESOURCE_TYPE_MAPPINGS_BY_PROJECT[j] = rtp
                THEN \E rvp_by_project \in DictValues(static_rvp) :
                        \E v \in DictValues(rvp_by_project) : ~IsPair(v)
                ELSE \E v \in DictValues(static_rvp) : ~IsPair(v)

\* __init__: "if check_config: IssuesExporter._validate_config()": does the
\* construction raise?
Validated(check_config, journals, settings) ==
    check_config /\ validate_config(journals, settings)

\* One probe of the static tables of the run (the body of the first loop)
StaticEntry(settings, mapping, resource, project_id) ==
    LET name == SettingName(mapping.k[1], mapping.k[2])
        redmine_resource_value == resource[mapping.redmine]
        all_mappings == Get(settings, name, EmptyDict)
        static_resource_value_mappings ==
            IF project_id # NoProjectId
            THEN Get(all_mappings, projects[project_id].identifier, EmptyDict)
            ELSE all_mappings
    IN  Get(static_resource_value_mappings, redmine_resource_value, None)

\* jira_resource_value[1] on a static value: the second item of a tuple, the
\* second character of a str, IndexError on a shorter one
Subscripted(v) ==
    IF Len(v[2]) < 2 THEN [raises |-> "IndexError", value |-> None]
    ELSE IF v[1] = "tuple" THEN [raises |-> "", value |-> v[2][2]]
    ELSE [raises |-> "", value |-> <<v[2][2]>>]

\* _get_resource_mapping over the settings of the run, for a call that
\* leaves include_internal_id at its default: the static search, then the
\* dynamic search and the prompts, then the value returned
lookup_in_run(settings, rvm, journals, call, menu_lines, value_lines) ==
    LET mappings ==
            jira_resource_type_field_mappings(call.redmine_resource_type)
        Static(v) ==
            IF journals
            THEN [returns |-> Subscripted(v).raises = "",
                  raises |-> Subscripted(v).raises,
                  jira_resource_value |-> Subscripted(v).value,
                  rvm |-> rvm, static |-> v]
            ELSE [returns |-> TRUE, raises |-> "", jira_resource_value |-> v,
                  rvm |-> rvm, static |-> v]
        Defined(found) ==
            [returns |-> found.returns, raises |-> "",
             jira_resource_value |->
                 IF found.returns
                 THEN ReturnedValue(journals, found.jira_resource_value, FALSE)
                 ELSE None,
             rvm |-> found.rvm, static |-> None]
        Dynamic(search) ==
            IF search.jira_resource_value # None
            THEN [returns |-> TRUE, raises |-> "",
                  jira_resource_value |->
                      ReturnedValue(journals, search.jira_resource_value,
                                    FALSE),
                  rvm |-> rvm, static |-> None]
            ELSE Defined(Define(search, rvm, journals, call.resource,
                                call.redmine_resource_type, call.project_id,
                                menu_lines, value_lines))
        Searched(static) ==
            IF static.jira_resource_value # None
            THEN Static(static.jira_resource_value)
            ELSE Dynamic(DynamicSearch(rvm, mappings, call.resource,
                                       call.project_id))
    IN  Searched(SearchLoop([i \in 1..Len(mappings) |->
                                StaticEntry(settings, mappings[i],
                                            call.resource, call.project_id)]))

\* The resources the issues of the run refer to: the categories of project
\* p1 and the user alice
RunCalls == {call \in PromptCalls : call.redmine_resource_type # "RedmineVersion"}

\* IssuesExporter(check_config): the construction raises or yields the
\* exporter; export() then starts with an empty dynamic table
Construct ==
    /\ startup.phase = "new"
    /\ startup' =
          [startup EXCEPT !.phase =
              IF Validated(startup.check_config, EXPORT_ISSUE_JOURNALS,
                           UserSettings(startup.forms))
              THEN "failed" ELSE "exporting"]
    /\ UNCHANGED <<EXPORT_ISSUE_JOURNALS, resource_value_mappings, banners,
                   last_call, first_answer, exportVars, journalVars, prompt,
                   mapped, historyVars>>

\* An issue is processed: the resolver is called for a resource it refers to
ProcessIssue ==
    /\ startup.phase = "exporting"
    /\ \E call \in RunCalls :
          \E menu_line \in Choices(2), value_line \in Answers(EXPORT_ISSUE_JOURNALS) :
             \E r \in {lookup_in_run(UserSettings(startup.forms),
                                     resource_value_mappings,
                                     EXPORT_ISSUE_JOURNALS, call,
                                     <<menu_line>>, <<value_line>>)} :
                /\ startup' =
                      [startup EXCEPT
                          !.phase = IF r.raises # "" THEN "aborted"
                                    ELSE "exporting",
                          !.processed = TRUE,
                          !.lazily = @ \/ (EXPORT_ISSUE_JOURNALS /\
                                           r.static # None /\
                                           ~IsPair(r.static)),
                          !.value = r.jira_resource_value]
                /\ resource_value_mappings' = r.rvm
    /\ UNCHANGED <<EXPORT_ISSUE_JOURNALS, banners, last_call, first_answer,
                   exportVars, journalVars, prompt, mapped, historyVars>>

\* Before the construction: the flag, the settings as the final user wrote
\* them and the check_config argument of the caller
InitStartup ==
    /\ EXPORT_ISSUE_JOURNALS \in BOOLEAN
    /\ resource_value_mappings = EmptyDict
    /\ banners = 0
    /\ last_call = NoCall
    /\ first_answer = EmptyDict
    /\ issues = <<>>
    /\ issues_export = EmptyDict
    /\ exported = <<>>
    /\ issues_export_before = EmptyDict
    /\ raised = ""
    /\ NoJournal
    /\ prompt = NoPrompt
    /\ mapped = [done |-> FALSE]
    /\ NoHistory
    /\ \E check_config \in BOOLEAN :
          \E forms \in [user : EntryForms, label : EntryForms,
                        component : {"pair", "name"}] :
             startup = [phase |-> "new", check_config |-> check_config,
                        forms |-> forms, processed |-> FALSE,
                        lazily |-> FALSE, value |-> None]

NextStartup == Construct \/ ProcessIssue

SpecStartup == InitStartup /\ [][NextStartup]_vars

\* Some static value mapping of the run is not a 2-element (ID, name) pair
Malformed(forms) == \E table \in DOMAIN forms : forms[table] # "pair"

\* C13: with the export of journals enabled and a static value mapping that
\* is not a 2-element pair, the run fails at startup: once constructed it is
\* in the failed state, no issue has been processed, no mapping has been
\* recorded and no lookup has met the malformed entry.
C13_MalformedEntryFailsAtStartup ==
    (/\ startup.phase \notin {"none", "new"}
     /\ EXPORT_ISSUE_JOURNALS
     /\ Malformed(startup.forms)) =>
        /\ startup.phase = "failed"
        /\ ~startup.processed
        /\ ~startup.lazily
        /\ resource_value_mappings = EmptyDict

(***************************************************************************)
(* IssuesExporter._get_custom_field_value_mapping applied to a custom      *)
(* field value, as _save_custom_fields and                                 *)
(* _get_journal_detail_custom_field_mapping apply it.                      *)
(***************************************************************************)
\* The custom field values the method is applied to: the custom fields of
\* the formats bool, attachment, list, link, string and int with the raw
\* values None, '', '0', '1', '7' and '42'
CustomFieldValues ==
    {[id |-> id, name |-> issue_custom_fields[id].name, value |-> value] :
        id \in {5, 7, 8, 9, 10, 11},
        value \in {None, <<>>, <<"0">>, <<"1">>, <<"7">>, <<"4", "2">>}}

\* self._get_custom_field_value_mapping(custom_field, project_id)
GetCustomFieldValueMapping ==
    /\ ~mapped.done
    /\ \E value_lines \in {<<>>} \cup
                          {<<a>> : a \in Answers(EXPORT_ISSUE_JOURNALS)} :
          \E r \in {get_custom_field_value_mapping(
                        mapped.custom_field, mapped.project_id, FALSE,
                        Iteration(EXPORT_ISSUE_JOURNALS, resource_value_mappings,
                                  banners, issues_export),
                        value_lines)} :
             /\ r.returns \/ r.raises # ""
             /\ value_lines # <<>> <=> r.rvm # resource_value_mappings
             /\ mapped' = [mapped EXCEPT !.done = TRUE, !.raises = r.raises,
                                         !.value = r.value]
             /\ resource_value_mappings' = r.rvm
             /\ banners' = r.banners
    /\ UNCHANGED <<EXPORT_ISSUE_JOURNALS, last_call, first_answer, exportVars,
                   journalVars, prompt, startup, historyVars>>

\* Before the call: the custom field value passed
InitCustomFieldValue ==
    /\ EXPORT_ISSUE_JOURNALS \in BOOLEAN
    /\ resource_value_mappings = EmptyDict
    /\ banners = 0
    /\ last_call = NoCall
    /\ first_answer = EmptyDict
    /\ issues = <<>>
    /\ issues_export = EmptyDict
    /\ exported = <<>>
    /\ issues_export_before = EmptyDict
    /\ raised = ""
    /\ NoJournal
    /\ prompt = NoPrompt
    /\ startup = [phase |-> "none"]
    /\ NoHistory
    /\ \E custom_field \in CustomFieldValues :
          mapped = [done |-> FALSE, custom_field |-> custom_field,
                    project_id |-> 1, raises |-> "", value |-> None]

NextCustomFieldValue == GetCustomFieldValueMapping

SpecCustomFieldValue == InitCustomFieldValue /\ [][NextCustomFieldValue]_vars

\* The format of the custom field the method was applied to
MappedFormat == issue_custom_fields[mapped.custom_field.id].field_format

InitJournalsDisabled ==
    /\ EXPORT_ISSUE_JOURNALS = FALSE
    /\ resource_value_mappings = EmptyDict
    /\ banners = 0
    /\ last_call = NoCall
    /\ first_answer = EmptyDict
    /\ issues = <<>>
    /\ issues_export = EmptyDict
    /\ exported = <<>>
    /\ issues_export_before = EmptyDict
    /\ raised = ""
    /\ \E property_name \in DOMAIN JournalProperties :
        /\ journal_issue \in JournalIssues(property_name)
        /\ \E list \in CollectedDetails(JournalProperties[property_name]) :
              /\ Len(list) < MaxEntries
              /\ journal_details = (property_name :> list)
    /\ normalized = [done |-> FALSE]
    /\ prompt = NoPrompt
    /\ NoRun

SpecJournalsDisabled == InitJournalsDisabled /\ [][NextCoalesce]_vars

\* C16: with EXPORT_ISSUE_JOURNALS disabled the journal property changes of
\* an issue are not processed at all: the collected details are never
\* normalized, so that they can neither yield items nor raise.
C16_JournalsOnlyWhenEnabled ==
    ~EXPORT_ISSUE_JOURNALS => ~normalized.done

\* C18: the coalescing pass completes without raising on every journal of
\* details of kind attr or cf, dangling references and a dangling last new
\* value of a relation attribute the issue has no value for included.
C18_NormalizationNeverRaises ==
    normalized.done => normalized.raises = ""

\* The journals of fewer entries in which a raw value may also be the empty
\* string, as the old value of a text attribute or of a custom field that
\* had no value is
ShortJournalsWithEmpty(property_type) ==
    {[i \in 1..Len(list) |->
         ("user" :> Resource("RedmineUser", 1, <<"a", "l", "i", "c", "e">>)) @@
         ("created_on" :> i) @@ list[i]] :
     list \in SeqsUpTo(
                 {[k \in {"property"} \cup DOMAIN values |->
                      IF k = "property" THEN property_type ELSE values[k]] :
                  values \in UNION {[keys -> RawValues \cup {<<>>}] :
                                       keys \in SUBSET {"old_value", "new_value"}
                                                    \ {{}}}},
                 MaxEntries - 1) \ {<<>>}}

\* _save_journals about to normalize the collected details of an issue, the
\* journals with empty strings included
InitCoalesceEmpty ==
    /\ EXPORT_ISSUE_JOURNALS = TRUE
    /\ resource_value_mappings = EmptyDict
    /\ banners = 0
    /\ last_call = NoCall
    /\ first_answer = EmptyDict
    /\ issues = <<>>
    /\ issues_export = EmptyDict
    /\ exported = <<>>
    /\ issues_export_before = EmptyDict
    /\ raised = ""
    /\ \E property_name \in DOMAIN JournalProperties :
        /\ journal_issue \in JournalIssues(property_name)
        /\ \/ \E list \in CollectedDetails(JournalProperties[property_name]) :
                 journal_details = (property_name :> list)
           \/ \E list \in
                    ShortJournalsWithEmpty(JournalProperties[property_name]) :
                 journal_details = (property_name :> list)
    /\ normalized = [done |-> FALSE]
    /\ prompt = NoPrompt
    /\ NoRun

SpecCoalesceEmpty == InitCoalesceEmpty /\ [][NextCoalesce]_vars

\* A value is present in the item: the key is there and its value is neither
\* None nor empty
Present(item, key) ==
    key \in DOMAIN item /\ item[key] # None /\ item[key] # <<>>

\* The kinds of valid state transition.  An item has no old (new) value
\* when it has no such key or holds the empty string under it.
IsSet(item) == ~Present(item, "old_value") /\ Present(item, "new_value")

IsUnset(item) == ~Present(item, "new_value") /\ Present(item, "old_value")

IsChange(item) ==
    /\ Present(item, "old_value")
    /\ Present(item, "new_value")
    /\ item["old_value"] # item["new_value"]

\* The item is of one of the three kinds and none of its values is None
IsTransition(item) ==
    /\ IsSet(item) \/ IsUnset(item) \/ IsChange(item)
    /\ \A key \in {"old_value", "new_value"} \cap DOMAIN item :
          item[key] # None

\* C19: after a coalescing pass that completes, every item of every property
\* is a set, an unset or a change of a value into a different one (so that
\* no item has old equal to new), and no property has an empty list.
C19_EveryItemIsValidTransition ==
    (normalized.done /\ normalized.raises = "") =>
        \A property_name \in DOMAIN normalized.journal_details :
            /\ normalized.journal_details[property_name] # <<>>
            /\ \A k \in 1..Len(normalized.journal_details[property_name]) :
                  IsTransition(normalized.journal_details[property_name][k])

\* C19 witness: a journal of three entries coalesced into an unset, a change
\* and a set (newest first)
C19_Witness ==
    /\ normalized.done /\ normalized.raises = ""
    /\ Len(Coalesced) = 3
    /\ IsUnset(Coalesced[1]) /\ IsChange(Coalesced[2]) /\ IsSet(Coalesced[3])

\* The old value of the entry, looked up, refers to nothing
OldValueInvalid(j) ==
    "old_value" \in DOMAIN Collected[j] /\ ResolvedDetail(j)["old_value"] = None

\* A backfill chain from the entry k back to the older entry m: the entries
\* after k are valid on their own, so that the entry k starts a merged
\* detail; its old value is invalid and its new value valid; the old values
\* of the entries between m and k are invalid too and the one of m is valid
BackfillChain(m, k) ==
    /\ m < k
    /\ \A j \in (k + 1)..Len(Collected) :
          is_journal_detail_valid(ResolvedDetail(j))
    /\ OldValueInvalid(k)
    /\ "new_value" \in DOMAIN Collected[k]
    /\ ResolvedDetail(k)["new_value"] # None
    /\ \A j \in (m + 1)..(k - 1) : OldValueInvalid(j)
    /\ "old_value" \in DOMAIN Collected[m]
    /\ ResolvedDetail(m)["old_value"] # None

\* The only item of the entries m..k goes from the old value of m to the
\* new value of k, at the time of k
BackfilledItem(m, k) ==
    /\ Len(ItemsOf(m..k)) = 1
    /\ ItemsOf(m..k)[1]["created_on"] = k
    /\ "old_value" \in DOMAIN ItemsOf(m..k)[1]
    /\ ItemsOf(m..k)[1]["old_value"] = ResolvedDetail(m)["old_value"]
    /\ "new_value" \in DOMAIN ItemsOf(m..k)[1]
    /\ ItemsOf(m..k)[1]["new_value"] = ResolvedDetail(k)["new_value"]

\* C20 as stated: a backfill chain of any length yields a single item, from
\* the old value of the nearest older entry that has a valid one to the new
\* value of the merged detail.
C20_BackfillYieldsSingleItem ==
    normalized.done =>
        \A m, k \in 1..Len(Collected) :
            BackfillChain(m, k) =>
                normalized.raises = "" /\ BackfilledItem(m, k)

\* C20 as the code has it: a backfill chain of any length yields a single
\* item, from the old value of the nearest older entry that has a valid one
\* to the new value of the merged detail, when the two differ, and no item
\* when they are equal.
C20_BackfillYieldsSingleItemOrNone ==
    normalized.done =>
        \A m, k \in 1..Len(Collected) :
            BackfillChain(m, k) =>
                /\ normalized.raises = ""
                /\ IF ResolvedDetail(m)["old_value"]
                          # ResolvedDetail(k)["new_value"]
                   THEN BackfilledItem(m, k)
                   ELSE ItemsOf(m..k) = <<>>

\* A chain of three entries backfilled: the newest entry and the one before
\* it have invalid old values, the oldest one a valid old value that differs
\* from the newest new value
C20_Witness ==
    /\ normalized.done
    /\ normalized.raises = ""
    /\ Len(Collected) = 3
    /\ BackfillChain(1, 3)
    /\ BackfilledItem(1, 3)
    /\ Coalesced = ItemsOf(1..3)

\* Is the k-th collected detail a genuine change: both values present after
\* the lookup, and distinct?
GenuineChange(k) ==
    LET jd == ResolvedDetail(k)
    IN  /\ "old_value" \in DOMAIN jd /\ jd["old_value"] # None
        /\ "new_value" \in DOMAIN jd /\ jd["new_value"] # None
        /\ jd["old_value"] # jd["new_value"]

\* Is the k-th collected detail represented in the coalesced list: as its own
\* item, or merged into the item of a later entry that starts from its old
\* value?
Represented(k) ==
    \E n \in 1..Len(Coalesced) :
        /\ Coalesced[n]["created_on"] >= Collected[k]["created_on"]
        /\ "old_value" \in DOMAIN Coalesced[n]
        /\ Coalesced[n]["old_value"] = ResolvedDetail(k)["old_value"]

\* C28: when the normalizer completes, every genuine change of the journal is
\* represented in the coalesced list, as its own item or merged into a later
\* item that starts from its old value.
C28_GenuineChangeNeverLost ==
    normalized.done /\ normalized.raises = "" =>
        \A k \in 1..Len(Collected) : GenuineChange(k) => Represented(k)

(***************************************************************************)
(* IssuesExporter._lookup_journal_detail_property_value called on the raw  *)
(* value of a journal detail.                                              *)
(***************************************************************************)
\* The properties looked up: the attributes of the model and the custom
\* fields Reviewed (bool), Owner (user), Target (version), Targets
\* (versions) and Owners (users)
LookupProperties ==
    [property_name \in DOMAIN WithoutId |-> "attr"] @@
    [property_name \in DOMAIN CustomFieldId |-> "cf"]

\* The raw values looked up: IDs, the ID 9 no resource has, a text, and
\* lists of IDs
LookupValues ==
    {<<"1">>, <<"3">>, <<"9">>, <<"x">>,
     List(<<<<"1">>, <<"3">>>>), List(<<<<"3">>, <<"1">>, <<"3">>>>),
     List(<<<<"4">>, <<"9">>>>), List(<<<<"1">>, <<"x">>>>)}

\* self._lookup_journal_detail_property_value(property_name, property_type,
\*                                            property_value, project_id)
LookupJournalDetailPropertyValue ==
    /\ ~lookup.done
    /\ \E r \in {lookup_journal_detail_property_value(
                     lookup.property_name, lookup.property_type,
                     lookup.property_value, lookup.project_id)} :
          lookup' = [lookup EXCEPT !.done = TRUE, !.raises = r.raises,
                                   !.ret = r.ret]
    /\ UNCHANGED <<EXPORT_ISSUE_JOURNALS, resource_value_mappings, banners,
                   last_call, first_answer, exportVars, journalVars, prompt,
                   startup, mapped, REDMINE_TEXT_FORMATTING, history>>

\* Before the call: the arguments
InitLookup ==
    /\ EXPORT_ISSUE_JOURNALS = TRUE
    /\ resource_value_mappings = EmptyDict
    /\ banners = 0
    /\ last_call = NoCall
    /\ first_answer = EmptyDict
    /\ issues = <<>>
    /\ issues_export = EmptyDict
    /\ exported = <<>>
    /\ issues_export_before = EmptyDict
    /\ raised = ""
    /\ NoJournal
    /\ prompt = NoPrompt
    /\ startup = [phase |-> "none"]
    /\ mapped = [done |-> FALSE]
    /\ REDMINE_TEXT_FORMATTING = "textile"
    /\ history = [done |-> FALSE]
    /\ \E property_name \in DOMAIN LookupProperties,
          property_value \in LookupValues,
          project_id \in DOMAIN projects :
          lookup = [done |-> FALSE, property_name |-> property_name,
                    property_type |-> LookupProperties[property_name],
                    property_value |-> property_value,
                    project_id |-> project_id,
                    raises |-> "", ret |-> None]

NextLookup == LookupJournalDetailPropertyValue

SpecLookup == InitLookup /\ [][NextLookup]_vars

\* Is the value a version resource?
IsVersion(value) == Len(value) = 3 /\ value[1] = "RedmineVersion"

\* C27: for a journal detail of the version custom field Target whose raw
\* value is a valid integer ID, the lookup returns the version with the ID
\* among the versions of the issue's project, or None when the project has no
\* such version; it never returns anything that is not a version.
C27_VersionCustomFieldLookup ==
    (/\ lookup.done
     /\ lookup.property_name = "12"
     /\ ~IsList(lookup.property_value)
     /\ IsInt(lookup.property_value)) =>
        /\ lookup.raises = ""
        /\ lookup.ret =
              Get(ResourcesById("RedmineVersion", lookup.project_id),
                  ParseInt(lookup.property_value), None)
        /\ lookup.ret # None => IsVersion(lookup.ret)

(***************************************************************************)
(* The export runs of issues with a category.                              *)
(***************************************************************************)
\* The issues of the runs: issues of project p1 with one of its categories
CategorizedIssues ==
    {Put(PlainIssue(1), "category", [id |-> name]) :
        name \in issue_categories[1]}

\* export(issues) called, before the first issue
InitExportCategories ==
    /\ EXPORT_ISSUE_JOURNALS \in BOOLEAN
    /\ resource_value_mappings = EmptyDict
    /\ banners = 0
    /\ last_call = NoCall
    /\ first_answer = EmptyDict
    /\ issues \in {[i \in 1..Len(run) |-> Put(run[i], "id", i)] :
                      run \in SeqsUpTo(CategorizedIssues, MaxIssues)}
    /\ issues_export = EmptyDict
    /\ exported = <<>>
    /\ issues_export_before = EmptyDict
    /\ raised = ""
    /\ NoJournal
    /\ prompt = NoPrompt
    /\ NoRun

SpecExportCategories == InitExportCategories /\ [][NextExport]_vars

\* The components list of a project bucket
Components(bucket) == Get(bucket, "components", <<>>)

\* The issue documents of a bucket with a components list
WithComponents(bucket) ==
    {k \in 1..Len(bucket["issues"]) :
        "components" \in DOMAIN bucket["issues"][k]}

\* C29: the components list of every project bucket holds each component
\* value at most once, and holds only values that are the component of an
\* issue of the bucket (an issue whose category is saved as a label adds
\* nothing to it).
C29_ComponentsListedOnce ==
    \A b \in 1..Len(Buckets) :
        /\ \A i, j \in 1..Len(Components(Buckets[b])) :
              Components(Buckets[b])[i] = Components(Buckets[b])[j] => i = j
        /\ {Components(Buckets[b])[i] : i \in 1..Len(Components(Buckets[b]))} =
              UNION {{Buckets[b]["issues"][k]["components"][n] :
                         n \in 1..Len(Buckets[b]["issues"][k]["components"])} :
                     k \in WithComponents(Buckets[b])}

(***************************************************************************)
(* IssuesExporter._get_custom_field_value_mapping applied to the custom    *)
(* fields that refer to users and versions.                                *)
(***************************************************************************)
\* Most IDs in the value of a multiple-valued custom field
MaxIds == 3

\* The IDs a value refers to: users and versions of the instance, and the ID
\* 9 of no resource
ReferencedIds == {<<"1">>, <<"3">>, <<"4">>, <<"9">>}

\* The custom field values: lists of IDs for the multiple-valued fields
\* Targets (versions) and Owners (users)
RelatedCustomFieldValues ==
    {[id |-> id, name |-> issue_custom_fields[id].name, value |-> List(ids)] :
        id \in {13, 14}, ids \in SeqsUpTo(ReferencedIds, MaxIds)}

\* Before the call: the custom field and the project of the issue
InitRelatedCustomFieldValue ==
    /\ EXPORT_ISSUE_JOURNALS \in BOOLEAN
    /\ resource_value_mappings = EmptyDict
    /\ banners = 0
    /\ last_call = NoCall
    /\ first_answer = EmptyDict
    /\ issues = <<>>
    /\ issues_export = EmptyDict
    /\ exported = <<>>
    /\ issues_export_before = EmptyDict
    /\ raised = ""
    /\ NoJournal
    /\ prompt = NoPrompt
    /\ startup = [phase |-> "none"]
    /\ NoHistory
    /\ \E custom_field \in RelatedCustomFieldValues, project_id \in {1, 2} :
          mapped = [done |-> FALSE, custom_field |-> custom_field,
                    project_id |-> project_id, raises |-> "", value |-> None]

SpecRelatedCustomFieldValue ==
    InitRelatedCustomFieldValue /\ [][NextCustomFieldValue]_vars

\* The type of the resources the custom field refers to, and the project
\* whose dictionary backs it (none for the users)
BackingType == IF MappedFormat = "user" THEN "RedmineUser" ELSE "RedmineVersion"

BackingProject == IF MappedFormat = "user" THEN NoProjectId ELSE mapped.project_id

\* The IDs in the raw value that are IDs of resources of the backing
\* dictionary
ExistingIds ==
    {id \in DOMAIN ResourcesById(BackingType, BackingProject) :
        \E i \in 1..Len(mapped.custom_field.value[2]) :
            ParseInt(mapped.custom_field.value[2][i]) = id}

\* The position of the ID in the backing dictionary
Position(id) ==
    CHOOSE p \in 1..Len(ItemsOrder(BackingType, BackingProject)) :
        ItemsOrder(BackingType, BackingProject)[p] = id

\* The existing IDs in the order of the backing dictionary
InDictionaryOrder ==
    CHOOSE s \in [1..Cardinality(ExistingIds) -> ExistingIds] :
        \A i, j \in DOMAIN s : i < j => Position(s[i]) < Position(s[j])

\* What the resolver returns for the resource with the ID
ResolvedFor(id) ==
    get_resource_mapping(resource_value_mappings, EXPORT_ISSUE_JOURNALS,
                         AsInstance(ResourcesById(BackingType,
                                                  BackingProject)[id]),
                         BackingType, NoProjectId, FALSE,
                         <<>>, <<>>).jira_resource_value

\* C24: the value of a multiple-valued user or version custom field is the
\* sequence of the resolved values of the referenced resources, each once,
\* in the order of the backing dictionary (the users, the versions of the
\* issue's project): it depends on the set of the referenced IDs only, not
\* on their order or their repetitions in the raw value.
C24_MultipleValuesInDictionaryOrder ==
    (mapped.done /\ Get(issue_custom_fields[mapped.custom_field.id],
                        "multiple", FALSE)) =>
        /\ mapped.raises = ""
        /\ IF mapped.custom_field.value = List(<<>>)
           THEN mapped.value = List(<<>>)
           ELSE /\ IsList(mapped.value)
                /\ Len(mapped.value[2]) = Cardinality(ExistingIds)
                /\ \A i \in 1..Len(mapped.value[2]) :
                      mapped.value[2][i] = ResolvedFor(InDictionaryOrder[i])

\* C24 witness: the versions 1, 4, 1 referenced in an issue of project p1,
\* whose dictionary holds 3, 1, 4: the value is the answer given for v1, then
\* the static value of v4
C24_Witness ==
    /\ mapped.done
    /\ mapped.custom_field.id = 13
    /\ mapped.project_id = 1
    /\ mapped.custom_field.value = List(<< <<"1">>, <<"4">>, <<"1">> >>)
    /\ ~EXPORT_ISSUE_JOURNALS
    /\ mapped.value = List(<< <<"B">>, <<"V", "4">> >>)

(***************************************************************************)
(* IssuesExporter._save_journals: the journals of an issue collected by    *)
(* property, coalesced, rebuilt by time and written as the comments and    *)
(* the history of the issue's document.                                    *)
(***************************************************************************)
\* mappings.ISSUE_FIELD_MAPPINGS: the key of the Jira field (None: none) by
\* the Redmine field and, for a related resource, the type mapping
ISSUE_FIELD_MAPPINGS ==
    (<<"project", project_rtp>> :> <<"project">>) @@
    (<<"tracker", tracker_issue_type_rtp>> :> <<"issuetype">>) @@
    (<<"status", issue_status_rtp>> :> <<"status">>) @@
    (<<"priority", issue_priority_rtp>> :> <<"priority">>) @@
    (<<"author", user_rtp>> :> <<"creator">>) @@
    (<<"assigned_to", user_rtp>> :> <<"assignee">>) @@
    (<<"assigned_to", group_user_rtp>> :> <<"assignee">>) @@
    (<<"category", issue_category_component_rtp>> :> <<"components">>) @@
    (<<"category", issue_category_label_rtp>> :> <<"labels">>) @@
    (<<"fixed_version", version_rtp>> :> <<"fixedversion">>) @@
    (<<"subject">> :> <<"summary">>) @@
    (<<"description">> :> <<"description">>) @@
    (<<"created_on">> :> <<"created">>) @@
    (<<"updated_on">> :> <<"updated">>) @@
    (<<"start_date">> :> None) @@
    (<<"due_date">> :> None) @@
    (<<"done_ratio">> :> None) @@
    (<<"estimated_hours">> :> <<"timeoriginalestimate">>) @@
    (<<"parent_id">> :> None) @@
    (<<"is_private">> :> None)

\* sorted(items, key=...), keys holding the key of each item: the items by
\* ascending key, the items with equal keys in their original order
RECURSIVE sorted(_, _)
sorted(items, keys) ==
    IF items = <<>> THEN <<>>
    ELSE LET least == Min({keys[i] : i \in DOMAIN keys})
             first == Min({i \in DOMAIN keys : keys[i] = least})
             Without(s) == SubSeq(s, 1, first - 1) \o SubSeq(s, first + 1, Len(s))
         IN  <<items[first]>> \o sorted(Without(items), Without(keys))

\* The property names of the model by their place in the order of str
\* (digits sort before lower-case letters)
NameOrder ==
    ("5" :> 1) @@
    [assigned_to_id |-> 2, description |-> 3, done_ratio |-> 4, subject |-> 5]

\* sort_type of _save_journal_details
sort_type(j) == IF j["property"] = "attr" THEN 0 ELSE 1

\* The dictionary of the journal details by property, with its keys in the
\* order they were inserted
NoDetails == [keys |-> <<>>, dict |-> EmptyDict]

\* _collect_journal_details, from the detail at the head of details on
RECURSIVE collect_journal_details(_, _, _, _)
collect_journal_details(journal, details, custom_fields, by_properties) ==
    IF details = <<>> THEN by_properties
    ELSE LET detail == Head(details)
             skipped ==
                 \/ detail["property"] \notin {"attr", "cf"}
                 \/ /\ detail["property"] = "cf"
                    /\ \A i \in DOMAIN custom_fields :
                          custom_fields[i][2] # CustomFieldId[detail["name"]]
             journal_detail_dict ==
                 [k \in {"user", "created_on", "property"}
                        \cup (DOMAIN detail \cap {"old_value", "new_value"}) |->
                     IF k = "user" THEN journal["user"]
                     ELSE IF k = "created_on" THEN journal["created_on"]
                     ELSE detail[k]]
             Collected_(name) ==
                 [keys |-> IF name \in DOMAIN by_properties.dict
                           THEN by_properties.keys
                           ELSE Append(by_properties.keys, name),
                  dict |-> SetDefaultAppend(by_properties.dict, name,
                                            journal_detail_dict)]
         IN  collect_journal_details(
                 journal, Tail(details), custom_fields,
                 IF skipped THEN by_properties
                 ELSE Collected_(detail["name"]))

\* _save_journal_notes
save_journal_notes(journal, st) ==
    LET Saved(author) ==
            IF ~author.returns THEN author
            ELSE [author EXCEPT !.issue_export =
                     SetDefaultAppend(
                         @, "comments",
                         [author |-> author.value,
                          body |-> IF REDMINE_TEXT_FORMATTING # "none"
                                   THEN text2confluence_wiki(journal["notes"])
                                   ELSE journal["notes"],
                          created |-> isoformat(journal["created_on"])])]
    IN  Saved(Resolved(st,
                       AsInstance(ResourcesById("RedmineUser", NoProjectId)[
                                      journal["user"][2]]),
                       "RedmineUser", NoProjectId, <<>>, <<>>))

\* The loop of _save_journals over the journals (sorted by time): the
\* notes saved, the details collected
RECURSIVE collect_journals(_, _, _)
collect_journals(journals, custom_fields, collected) ==
    IF journals = <<>> \/ ~collected.st.returns THEN collected
    ELSE LET journal == Head(journals)
             Noted(st) ==
                 IF Truthy(Get(journal, "notes", None))
                 THEN save_journal_notes(journal, st) ELSE st
             Detailed(by_properties) ==
                 IF Get(journal, "details", <<>>) # <<>>
                 THEN collect_journal_details(journal, journal["details"],
                                              custom_fields, by_properties)
                 ELSE by_properties
         IN  collect_journals(
                 Tail(journals), custom_fields,
                 [st |-> Noted(collected.st),
                  by_properties |-> Detailed(collected.by_properties)])

\* The loop of _rebuild_journals over the details of a property
RECURSIVE rebuild_property(_, _, _)
rebuild_property(prop, details, journals_rebuild) ==
    IF details = <<>> THEN journals_rebuild
    ELSE LET item == Head(details)
             found == {i \in DOMAIN journals_rebuild :
                          journals_rebuild[i].created_on = item["created_on"]}
             detail ==
                 [k \in (DOMAIN item \cup {"name"})
                        \ {"user", "created_on", "details"} |->
                     IF k = "name" THEN prop ELSE item[k]]
             With(journals, i) ==
                 [journals EXCEPT ![i].details = Append(@, detail)]
         IN  rebuild_property(
                 prop, Tail(details),
                 IF found # {} THEN With(journals_rebuild, Min(found))
                 ELSE With(Append(journals_rebuild,
                                  [user |-> item["user"],
                                   created_on |-> item["created_on"],
                                   details |-> <<>>]),
                           Len(journals_rebuild) + 1))

\* _rebuild_journals: properties holds the keys of the dictionary in order
RECURSIVE rebuild_journals(_, _, _)
rebuild_journals(properties, journal_details_by_properties, journals_rebuild) ==
    IF properties = <<>> THEN journals_rebuild
    ELSE rebuild_journals(
             Tail(properties), journal_details_by_properties,
             rebuild_property(Head(properties),
                              journal_details_by_properties[Head(properties)],
                              journals_rebuild))

\* What the two mapping methods return: (field, internal value, string
\* value), with the iteration as the resolver leaves it
FieldMapping(st, field, internal_value, string_value) ==
    [st |-> st, field |-> field, internal_value |-> internal_value,
     string_value |-> string_value]

\* _get_journal_detail_field_mapping
get_journal_detail_field_mapping(redmine_field, redmine_value, project_id, st) ==
    LET project_id_local ==
            IF redmine_field \in {"category_id", "fixed_version_id"}
            THEN project_id ELSE NoProjectId
        Mapped_(field, internal_value, string_value) ==
            IF field # None
            THEN FieldMapping(st, field, internal_value, string_value)
            ELSE FieldMapping(st, None, None, None)
        Related(r) ==
            IF ~r.returns THEN FieldMapping(r, None, None, None)
            ELSE FieldMapping(
                     r, ISSUE_FIELD_MAPPINGS[<<WithoutId[redmine_field], r.type>>],
                     r.value[1], r.value[2])
    IN  IF redmine_field \in DOMAIN WithoutId
           /\ WithoutId[redmine_field] \in DOMAIN RelatedFields
        THEN IF redmine_value = None \/ Len(redmine_value) # 3
             THEN \* no identifying field to read
                  FieldMapping([st EXCEPT !.returns = FALSE,
                                          !.raises = "AttributeError"],
                               None, None, None)
             ELSE Related(ResolvedValue(st, AsInstance(redmine_value),
                                        redmine_value[1], project_id_local,
                                        TRUE, <<>>, <<>>))
        ELSE CASE redmine_field = "subject" ->
                    Mapped_(ISSUE_FIELD_MAPPINGS[<<redmine_field>>],
                            redmine_value, None)
               [] redmine_field = "description" ->
                    Mapped_(ISSUE_FIELD_MAPPINGS[<<redmine_field>>],
                            text2confluence_wiki(redmine_value), None)
               [] redmine_field = "done_ratio" ->
                    Mapped_(ISSUE_FIELD_MAPPINGS[<<redmine_field>>],
                            redmine_value, None)
               [] OTHER ->
                    FieldMapping([st EXCEPT !.returns = FALSE,
                                            !.raises = "NotImplementedError"],
                                 None, None, None)

\* _get_journal_detail_custom_field_mapping, for the custom fields that
\* refer neither to users nor to versions
get_journal_detail_custom_field_mapping(redmine_field, redmine_value, project_id, st) ==
    LET custom_field_id == CustomFieldId[redmine_field]
        custom_field_def == issue_custom_fields[custom_field_id]
        custom_field == [id |-> custom_field_id,
                         name |-> custom_field_def.name,
                         value |-> redmine_value]
        Valued(field, valued) ==
            FieldMapping(valued, field, valued.value, None)
        Named(named) ==
            IF ~named.returns THEN FieldMapping(named, None, None, None)
            ELSE Valued(named.value,
                        get_custom_field_value_mapping(custom_field, project_id,
                                                       FALSE, named, <<>>))
    IN  Named(Resolved(st, [name |-> custom_field_def.name],
                       "RedmineCustomField", NoProjectId, <<>>, <<>>))

\* A slip: every detail with a Jira field written as an item
is_change_Always(field, from_internal_value, to_internal_value) ==
    field # None

\* The test of _save_journal_details for writing an item
is_change(field, from_internal_value, to_internal_value) ==
    field # None /\ from_internal_value # to_internal_value

\* The loop of _save_journal_details over the value types of a detail
\* (old_value, new_value: those the detail has): m holds the iteration and
\* the local variables field, from_internal_value, from_string,
\* to_internal_value, to_string
RECURSIVE journal_detail_mappings(_, _, _, _)
journal_detail_mappings(detail, value_types, project_id, m) ==
    IF value_types = <<>> \/ ~m.st.returns THEN m
    ELSE LET String(r) ==
                 IF r.internal_value # None /\ r.string_value = None
                 THEN <<>> ELSE r.string_value
             Assigned(r) ==
                 IF Head(value_types) = "old_value"
                 THEN [m EXCEPT !.st = r.st, !.field = r.field,
                                !.from_internal_value = r.internal_value,
                                !.from_string = String(r)]
                 ELSE [m EXCEPT !.st = r.st, !.field = r.field,
                                !.to_internal_value = r.internal_value,
                                !.to_string = String(r)]
         IN  journal_detail_mappings(
                 detail, Tail(value_types), project_id,
                 Assigned(IF detail["property"] = "attr"
                          THEN get_journal_detail_field_mapping(
                                   detail["name"], detail[Head(value_types)],
                                   project_id, m.st)
                          ELSE get_journal_detail_custom_field_mapping(
                                   detail["name"], detail[Head(value_types)],
                                   project_id, m.st)))

\* The body of the loop of _save_journal_details over the details of a
\* journal.  h holds the iteration and the users whose mapping was asked
\* of the resolver for the author of an event
save_journal_detail(journal, detail, project_id, h) ==
    LET created == isoformat(journal["created_on"])
        Events(st) == Get(st.issue_export, "history", <<>>)
        Found(st) == {i \in DOMAIN Events(st) : Events(st)[i].created = created}
        Item(m) ==
            [field |-> m.field,
             fieldType |-> IF detail["property"] = "attr" THEN "jira"
                           ELSE "custom",
             from |-> m.from_internal_value, fromString |-> m.from_string,
             to |-> m.to_internal_value, toString |-> m.to_string]
        Appended(st, i, item) ==
            [st EXCEPT !.issue_export["history"][i].items = Append(@, item)]
        Created(author, item) ==
            IF ~author.returns THEN author
            ELSE Appended(
                     [author EXCEPT !.issue_export =
                         SetDefaultAppend(@, "history",
                                          [author |-> author.value,
                                           created |-> created,
                                           items |-> <<>>])],
                     Len(Events(author)) + 1, item)
        Written(st, item) ==
            IF Found(st) # {}
            THEN [h EXCEPT !.st = Appended(st, Min(Found(st)), item)]
            ELSE [st |-> Created(
                            Resolved(st,
                                     AsInstance(
                                         ResourcesById("RedmineUser",
                                                       NoProjectId)[
                                             journal["user"][2]]),
                                     "RedmineUser", NoProjectId, <<>>, <<>>),
                            item),
                  authors |-> Append(h.authors, journal["user"])]
        Saved(m) ==
            IF ~m.st.returns THEN [h EXCEPT !.st = m.st]
            ELSE IF is_change(m.field, m.from_internal_value,
                              m.to_internal_value)
            THEN Written(m.st, Item(m))
            ELSE [h EXCEPT !.st = m.st]
    IN  Saved(journal_detail_mappings(
                  detail,
                  SelectSeq(<<"old_value", "new_value">>,
                            LAMBDA k : k \in DOMAIN detail),
                  project_id,
                  [st |-> h.st, field |-> None,
                   from_internal_value |-> None, from_string |-> None,
                   to_internal_value |-> None, to_string |-> None]))

\* The loop of _save_journal_details over the sorted details of a journal
RECURSIVE save_details(_, _, _, _)
save_details(journal, details, project_id, h) ==
    IF details = <<>> \/ ~h.st.returns THEN h
    ELSE save_details(journal, Tail(details), project_id,
                      save_journal_detail(journal, Head(details), project_id, h))

\* The details of a journal in the order _save_journal_details takes them:
\* sorted by type, then (the sort being stable) by name
sorted_details(details) ==
    LET ByName(by_type) ==
            sorted(by_type, [i \in DOMAIN by_type |->
                                NameOrder[by_type[i]["name"]]])
    IN  ByName(sorted(details, [i \in DOMAIN details |->
                                   sort_type(details[i])]))

\* _save_journal_details, from the journal at the head of journals (sorted
\* by time) on
RECURSIVE save_journal_details(_, _, _)
save_journal_details(journals, project_id, h) ==
    IF journals = <<>> \/ ~h.st.returns THEN h
    ELSE save_journal_details(
             Tail(journals), project_id,
             save_details(Head(journals),
                          sorted_details(Head(journals).details),
                          project_id, h))

\* sorted(journals, key=itemgetter('created_on'))
sorted_journals(journals) ==
    sorted(journals, [i \in DOMAIN journals |-> journals[i]["created_on"]])

\* _save_journals(issue, issue_export): the iteration it leaves, with the
\* users resolved as the authors of history events
save_journals(issue, st) ==
    LET project_id == issue["project"][2]
        Saved(coalesced, keys, s) ==
            IF coalesced.raises # ""
            THEN [st |-> [s EXCEPT !.returns = FALSE,
                                   !.raises = coalesced.raises],
                  authors |-> <<>>]
            ELSE save_journal_details(
                     sorted_journals(
                         rebuild_journals(
                             SelectSeq(keys,
                                       LAMBDA prop :
                                           prop \in DOMAIN
                                               coalesced.journal_details),
                             coalesced.journal_details, <<>>)),
                     project_id, [st |-> s, authors |-> <<>>])
        Coalesced_(collected) ==
            IF ~collected.st.returns
            THEN [st |-> collected.st, authors |-> <<>>]
            ELSE Saved(coalesce_journal_details(issue,
                                                collected.by_properties.dict,
                                                project_id),
                       collected.by_properties.keys, collected.st)
    IN  Coalesced_(collect_journals(sorted_journals(issue["journals"]),
                                    issue["custom_fields"],
                                    [st |-> st, by_properties |-> NoDetails]))

(***************************************************************************)
(* The issues whose journals are saved: an issue of project p1 with up to  *)
(* two journals by alice and bob.                                          *)
(***************************************************************************)
\* Most journals of the issue
MaxJournals == 2

\* The details a journal can hold: a change of the subject, of the
\* description, of the assignee (from alice to bob, from bob to carol), of
\* the custom field Reviewed and of the done ratio
HistoryDetails ==
    << [property |-> "attr", name |-> "subject",
        old_value |-> <<"s">>, new_value |-> <<"t">>],
       [property |-> "attr", name |-> "description",
        old_value |-> <<"d">>, new_value |-> <<"e">>],
       [property |-> "attr", name |-> "assigned_to_id",
        old_value |-> <<"1">>, new_value |-> <<"3">>],
       [property |-> "attr", name |-> "assigned_to_id",
        old_value |-> <<"3">>, new_value |-> <<"4">>],
       [property |-> "cf", name |-> "5",
        old_value |-> <<"0">>, new_value |-> <<"1">>],
       [property |-> "attr", name |-> "done_ratio",
        old_value |-> <<"0">>, new_value |-> <<"5">>] >>

\* What a journal can hold: one detail, the changes of the subject and of
\* the custom field in either order, notes with or without a detail
JournalContents ==
    {[notes |-> <<>>, details |-> <<HistoryDetails[i]>>] :
        i \in DOMAIN HistoryDetails \ {2}}
    \cup {[notes |-> <<"n">>, details |-> <<HistoryDetails[2]>>],
          [notes |-> <<"n">>, details |-> <<>>],
          [notes |-> <<>>, details |-> <<HistoryDetails[1], HistoryDetails[5]>>],
          [notes |-> <<>>, details |-> <<HistoryDetails[5], HistoryDetails[1]>>]}

\* The journals: by alice or bob, at time 1 or 2
Journals ==
    {[user |-> ResourcesById("RedmineUser", NoProjectId)[id],
      created_on |-> created_on, notes |-> contents.notes,
      details |-> contents.details] :
        id \in {1, 3}, created_on \in {1, 2}, contents \in JournalContents}

\* The issue: of project p1, assigned to carol, its custom field Reviewed set
HistoryIssue(journals) ==
    [project |-> Resource("RedmineProject", 1, <<"p", "1">>),
     status |-> Resource("RedmineIssueStatus", 1, <<"N", "e", "w">>),
     subject |-> <<"t">>,
     description |-> <<"e">>,
     assigned_to |-> Resource("RedmineUser", 4, <<"c", "a", "r", "o", "l">>),
     custom_fields |->
         << <<"custom_field", 5,
              <<"R", "e", "v", "i", "e", "w", "e", "d">>, <<"1">>>> >>,
     journals |-> journals]

\* _save_journals(issue, issue_export), the issue dictionary being empty
SaveJournals ==
    /\ ~history.done
    /\ \E h \in {save_journals(journal_issue,
                               Iteration(EXPORT_ISSUE_JOURNALS,
                                         resource_value_mappings, banners,
                                         EmptyDict))} :
          /\ h.st.returns \/ h.st.raises # ""
          /\ history' = [done |-> TRUE, raises |-> h.st.raises,
                         issue_export |-> h.st.issue_export,
                         authors |-> h.authors]
          /\ resource_value_mappings' = h.st.rvm
          /\ banners' = h.st.banners
    /\ UNCHANGED <<EXPORT_ISSUE_JOURNALS, last_call, first_answer, exportVars,
                   journalVars, prompt, startup, mapped,
                   REDMINE_TEXT_FORMATTING, lookup>>

\* export() about to save the journals of an issue
InitHistory ==
    /\ EXPORT_ISSUE_JOURNALS = TRUE
    /\ resource_value_mappings = EmptyDict
    /\ banners = 0
    /\ last_call = NoCall
    /\ first_answer = EmptyDict
    /\ issues = <<>>
    /\ issues_export = EmptyDict
    /\ exported = <<>>
    /\ issues_export_before = EmptyDict
    /\ raised = ""
    /\ journal_details = <<>>
    /\ normalized = [done |-> FALSE]
    /\ prompt = NoPrompt
    /\ startup = [phase |-> "none"]
    /\ mapped = [done |-> FALSE]
    /\ lookup = [done |-> FALSE]
    /\ history = [done |-> FALSE]
    /\ REDMINE_TEXT_FORMATTING \in {"textile", "none"}
    /\ \E journals \in SeqsUpTo(Journals, MaxJournals) \ {<<>>} :
          journal_issue = HistoryIssue(journals)

NextHistory == SaveJournals

SpecHistory == InitHistory /\ [][NextHistory]_vars

(***************************************************************************)
(* Claims about the history of an issue                                    *)
(***************************************************************************)
\* The history list of the issue's document
HistoryEvents ==
    IF history.done /\ "history" \in DOMAIN history.issue_export
    THEN history.issue_export["history"] ELSE <<>>

\* The journals of the issue as Redmine returned them
IssueJournals == journal_issue["journals"]

\* The Jira user the user is mapped to
JiraUserOf(user) ==
    get_resource_mapping(EmptyDict, TRUE, AsInstance(user), "RedmineUser",
                         NoProjectId, FALSE, <<>>, <<>>).jira_resource_value

\* The Jira field of the properties of the model (None: none)
JiraFieldOf ==
    ("5" :> <<"R", "e", "v">>) @@
    [assigned_to_id |-> <<"assignee">>, description |-> <<"description">>,
     done_ratio |-> None, subject |-> <<"summary">>]

\* The journal has a detail of a property with the Jira field
Changes(journal, field) ==
    \E d \in DOMAIN journal["details"] :
        JiraFieldOf[journal["details"][d]["name"]] = field

\* C21: every item of a history event comes from a journal entry with the
\* event's time and the event's author: the entries of two authors at one
\* time are never merged into one event.
C21_EventsGroupedByAuthorAndTime ==
    history.done =>
        \A e \in DOMAIN HistoryEvents :
            \A k \in DOMAIN HistoryEvents[e].items :
                \E j \in DOMAIN IssueJournals :
                    /\ JiraUserOf(IssueJournals[j]["user"])
                           = HistoryEvents[e].author
                    /\ isoformat(IssueJournals[j]["created_on"])
                           = HistoryEvents[e].created
                    /\ Changes(IssueJournals[j], HistoryEvents[e].items[k].field)

\* The time of the journal entries an event was created for
CreatedOn(event) == CHOOSE t \in {1, 2} : isoformat(t) = event.created

\* The property the item's field is the Jira field of
PropertyOf(item) ==
    CHOOSE name \in DOMAIN JiraFieldOf : JiraFieldOf[name] = item.field

\* C22: the events of the history are in chronological order, and in every
\* event the items of the standard fields come before the items of the
\* custom fields, the items of each kind in the order of their property
\* names.
C22_EventsAndItemsOrdered ==
    history.done =>
        /\ \A e1, e2 \in DOMAIN HistoryEvents :
              e1 < e2 => CreatedOn(HistoryEvents[e1]) < CreatedOn(HistoryEvents[e2])
        /\ \A e \in DOMAIN HistoryEvents :
              \A k1, k2 \in DOMAIN HistoryEvents[e].items :
                  k1 < k2 =>
                      /\ HistoryEvents[e].items[k1].fieldType = "custom"
                             => HistoryEvents[e].items[k2].fieldType = "custom"
                      /\ HistoryEvents[e].items[k1].fieldType
                             = HistoryEvents[e].items[k2].fieldType
                         => NameOrder[PropertyOf(HistoryEvents[e].items[k1])]
                                <= NameOrder[PropertyOf(HistoryEvents[e].items[k2])]

\* C23: every event of the history has an item, no item goes from a value
\* to the same value, and the resolver is asked for an author once per event
\* written, for the author the event holds (never for a journal entry
\* whose changes all drop out).
C23_NoEmptyEventNoVoidItem ==
    (history.done /\ history.raises = "") =>
        /\ \A e \in DOMAIN HistoryEvents :
              /\ HistoryEvents[e].items # <<>>
              /\ \A k \in DOMAIN HistoryEvents[e].items :
                    HistoryEvents[e].items[k].from # HistoryEvents[e].items[k].to
        /\ Len(history.authors) = Len(HistoryEvents)
        /\ \A e \in DOMAIN HistoryEvents :
              JiraUserOf(history.authors[e]) = HistoryEvents[e].author

\* C23 witness: alice changes the subject, then bob reassigns the issue from
\* bob to carol, who are the same Jira user: the history holds alice's event
\* only, and bob was not resolved
C23_Witness ==
    /\ history.done
    /\ Len(IssueJournals) = 2
    /\ IssueJournals[1]["user"][2] = 1
    /\ IssueJournals[1]["details"] = <<HistoryDetails[1]>>
    /\ IssueJournals[1]["created_on"] = 1
    /\ IssueJournals[2]["user"][2] = 3
    /\ IssueJournals[2]["details"] = <<HistoryDetails[4]>>
    /\ IssueJournals[2]["created_on"] = 2
    /\ Len(HistoryEvents) = 1
    /\ HistoryEvents[1].author = <<"a">>
    /\ Len(HistoryEvents[1].items) = 1
    /\ history.authors = <<IssueJournals[1]["user"]>>

\* The comments of the issue's document
Comments ==
    IF history.done /\ "comments" \in DOMAIN history.issue_export
    THEN history.issue_export["comments"] ELSE <<>>

\* C30: with the text formatting 'none' the body of every comment is the
\* text of the note, and every journal entry that changes the description
\* yields, in the event of its time, an item of the description field going
\* from the old text to the new text.
C30_PlainTextUnchanged ==
    (history.done /\ REDMINE_TEXT_FORMATTING = "none") =>
        /\ \A c \in DOMAIN Comments : Comments[c].body = <<"n">>
        /\ \A j \in DOMAIN IssueJournals :
              Changes(IssueJournals[j], <<"description">>) =>
                  \E e \in DOMAIN HistoryEvents :
                      /\ HistoryEvents[e].created
                             = isoformat(IssueJournals[j]["created_on"])
                      /\ \E k \in DOMAIN HistoryEvents[e].items :
                            /\ HistoryEvents[e].items[k].field = <<"description">>
                            /\ HistoryEvents[e].items[k].from = <<"d">>
                            /\ HistoryEvents[e].items[k].to = <<"e">>

====
